---- MODULE Spec2Model ----
(***************************************************************************)
(* jlo-tui: the terminal client of just-logs-server.                       *)
(*                                                                         *)
(* The model covers the application state machine (app.rs), the view       *)
(* state's selection arithmetic (ui/logs.rs), the main loop (main.rs) and  *)
(* the live-tail ingestion task with its bounded channel (api/sse.rs).     *)
(* The App struct is one record variable, app; every key handler is an     *)
(* operator from (app, key, outcomes of the remote calls it awaits) to the *)
(* next App.  Each LogStream is a session number; its spawned task, its    *)
(* channel and the receiver's liveness are functions over session numbers. *)
(***************************************************************************)
EXTENDS Integers, Sequences, FiniteSets, TLC

VARIABLES
    pc,        \* position of main: in run_app at "start", "event" or "stream",
               \* "done" once run_app has returned, "exited" once main has
    app,       \* the App struct
    task,      \* per LogStream: position of its spawned ingestion task
    chan,      \* per LogStream: the mpsc buffer, oldest first
    rxOpen,    \* per LogStream: the Receiver has not been dropped
    pending,   \* per LogStream: the decoded Log the task is sending
    decoded,   \* per LogStream: well-formed records decoded so far
    event      \* per LogStream: the event its task matched last (history,
               \* kept only by the specifications that trace the task)

vars == <<pc, app, task, chan, rxOpen, pending, decoded, event>>

(***************************************************************************)
(* Bounds of the model.                                                    *)
(***************************************************************************)
\* LogStream::new calls over a run
MaxSessions == 2
\* well-formed records one server stream yields
MaxRecords == 3
\* largest configured max_logs_in_memory
MaxCap == 3
\* most records one get_logs response holds (the request says limit = 100)
MaxFetch == 2
\* most applications get_apps returns
MaxApps == 1
\* mpsc::channel(100) in sse.rs, scaled so that the buffer fills
ChannelCapacity == 2

\* longest text typed into a field (username, password, search)
MaxText == 2

Sessions == 1..MaxSessions

(***************************************************************************)
(* Option<T>: None is the empty tuple, Some(x) the one-element tuple.      *)
(***************************************************************************)
None == <<>>
Some(x) == <<x>>
IsSome(o) == o # <<>>
Unwrap(o) == o[1]

Min(a, b) == IF a < b THEN a ELSE b

\* usize::saturating_sub
SaturatingSub(a, b) == IF a < b THEN 0 ELSE a - b

\* Vec::truncate(n): keeps the first n elements, no effect when n >= len
Truncate(s, n) == IF n >= Len(s) THEN s ELSE SubSeq(s, 1, n)

\* Vec::insert(0, x)
InsertFront(s, x) == <<x>> \o s

\* Vec::get(i), i counted from 0
VecGet(s, i) == IF i >= 0 /\ i < Len(s) THEN Some(s[i + 1]) ELSE None

(***************************************************************************)
(* Log records.  A record decoded by the ingestion task of LogStream s is  *)
(* [sess |-> s, seq |-> n], the n-th it decoded; the i-th record of a      *)
(* get_logs response is [sess |-> 0, seq |-> i].                           *)
(***************************************************************************)
TailLog(s, n) == [sess |-> s, seq |-> n]
FetchedLogs(n) == [i \in 1..n |-> [sess |-> 0, seq |-> i]]

(***************************************************************************)
(* LogsViewState (ui/logs.rs): [logs, selected], selected being            *)
(* table_state.selected(), an Option<usize> counted from 0.                *)
(***************************************************************************)
\* stride of page_down / page_up
PageStride == 10

LogsViewState_new == [logs |-> <<>>, selected |-> Some(0)]

next(v) ==
    IF Len(v.logs) = 0 THEN v
    ELSE LET i == IF IsSome(v.selected)
                   THEN (IF Unwrap(v.selected) >= Len(v.logs) - 1
                         THEN 0 ELSE Unwrap(v.selected) + 1)
                   ELSE 0
         IN  [v EXCEPT !.selected = Some(i)]

\* previous that stays on the first record instead of wrapping
previous_NoWrap(v) ==
    IF Len(v.logs) = 0 THEN v
    ELSE LET i == IF IsSome(v.selected)
                   THEN SaturatingSub(Unwrap(v.selected), 1)
                   ELSE 0
         IN  [v EXCEPT !.selected = Some(i)]

previous(v) ==
    IF Len(v.logs) = 0 THEN v
    ELSE LET i == IF IsSome(v.selected)
                   THEN (IF Unwrap(v.selected) = 0
                         THEN Len(v.logs) - 1 ELSE Unwrap(v.selected) - 1)
                   ELSE 0
         IN  [v EXCEPT !.selected = Some(i)]

\* select_first without the test for an empty sequence
select_first_Unguarded(v) == [v EXCEPT !.selected = Some(0)]

select_first(v) ==
    IF Len(v.logs) # 0 THEN [v EXCEPT !.selected = Some(0)] ELSE v

select_last(v) ==
    IF Len(v.logs) # 0 THEN [v EXCEPT !.selected = Some(Len(v.logs) - 1)] ELSE v

page_down(v) ==
    IF Len(v.logs) = 0 THEN v
    ELSE LET i == IF IsSome(v.selected) THEN Unwrap(v.selected) ELSE 0
         IN  [v EXCEPT !.selected = Some(Min(i + PageStride, Len(v.logs) - 1))]

page_up(v) ==
    IF Len(v.logs) = 0 THEN v
    ELSE LET i == IF IsSome(v.selected) THEN Unwrap(v.selected) ELSE 0
         IN  [v EXCEPT !.selected = Some(SaturatingSub(i, PageStride))]

\* selected_log that answers for any cursor, without looking the record up
selected_log_AnyCursor(v) == v.selected

selected_log(v) ==
    IF IsSome(v.selected) THEN VecGet(v.logs, Unwrap(v.selected)) ELSE None

\* set_logs that puts the cursor on the first record of every non-empty
\* sequence
set_logs_ResetsCursor(v, logs) ==
    IF Len(logs) # 0
    THEN [logs |-> logs, selected |-> Some(0)]
    ELSE [v EXCEPT !.logs = logs]

set_logs(v, logs) ==
    IF Len(logs) # 0 /\ ~IsSome(v.selected)
    THEN [logs |-> logs, selected |-> Some(0)]
    ELSE [v EXCEPT !.logs = logs]

(***************************************************************************)
(* Key events.  A key is named by what the handlers match on: "Char" is a  *)
(* character no handler names, "C-x" is x with the CONTROL modifier.       *)
(***************************************************************************)
IsUp(key) == key \in {"Up", "k"}
IsDown(key) == key \in {"Down", "j"}
IsSelect(key) == key \in {"Enter", "Space"}
\* KeyCode::Char(c), whatever the modifiers
IsChar(key) ==
    key \in {"Char", "Space", "q", "?", "f", "r", "t", "e", "k", "j", "g", "G",
             "C-u", "C-d", "C-c"}

(***************************************************************************)
(* LoginState (ui/login.rs).  username and password are modelled by their  *)
(* lengths: push adds one character, pop removes one if there is one.      *)
(***************************************************************************)
LoginState_default ==
    [username |-> 0, password |-> 0, active_field |-> "Username",
     error_message |-> None, is_submitting |-> FALSE]

\* LoginState::handle_key: the new LoginState and the bool it returns
LoginState_handle_key(l, key) ==
    CASE IsChar(key) ->
            [ls |-> IF l.active_field = "Username"
                    THEN [l EXCEPT !.username = @ + 1]
                    ELSE [l EXCEPT !.password = @ + 1],
             submit |-> FALSE]
      [] key = "Backspace" ->
            [ls |-> IF l.active_field = "Username"
                    THEN [l EXCEPT !.username = SaturatingSub(@, 1)]
                    ELSE [l EXCEPT !.password = SaturatingSub(@, 1)],
             submit |-> FALSE]
      [] key = "Tab" ->
            [ls |-> [l EXCEPT !.active_field =
                        IF @ = "Username" THEN "Password" ELSE "Username"],
             submit |-> FALSE]
      [] key = "Enter" -> [ls |-> l, submit |-> TRUE]
      [] OTHER -> [ls |-> l, submit |-> FALSE]

\* set_error that leaves is_submitting as it is
set_error_KeepsSubmitting(l, message) == [l EXCEPT !.error_message = Some(message)]

set_error(l, message) ==
    [l EXCEPT !.error_message = Some(message), !.is_submitting = FALSE]

clear_error(l) == [l EXCEPT !.error_message = None]

(***************************************************************************)
(* FilterState (ui/filters.rs).  apps is the Vec<Application> as the       *)
(* sequence of application ids; search_text is modelled by its length.     *)
(***************************************************************************)
LogLevel_all == <<"DEBUG", "INFO", "WARN", "ERROR", "FATAL">>
TimeRangePreset_all == <<"Last1Hour", "Last24Hours", "Last7Days", "All">>

FilterState_new(apps) ==
    [active_field |-> "App", selected_app_id |-> None, selected_levels |-> <<>>,
     search_text |-> 0, time_range |-> "Last24Hours", apps |-> apps,
     app_list_state |-> Some(0), level_list_state |-> Some(0),
     time_list_state |-> Some(1)]

UnwrapOr(o, d) == IF IsSome(o) THEN Unwrap(o) ELSE d

\* next_app that wraps after the last application, forgetting the slot of
\* "All"
next_app_NoAllSlot(f) ==
    LET i == UnwrapOr(f.app_list_state, 0)
    IN  [f EXCEPT !.app_list_state =
            Some(IF i >= Len(f.apps) - 1 THEN 0 ELSE i + 1)]

next_app(f) ==
    LET i == UnwrapOr(f.app_list_state, 0)
    IN  [f EXCEPT !.app_list_state = Some(IF i >= Len(f.apps) THEN 0 ELSE i + 1)]

previous_app(f) ==
    LET i == UnwrapOr(f.app_list_state, 0)
    IN  [f EXCEPT !.app_list_state = Some(IF i = 0 THEN Len(f.apps) ELSE i - 1)]

toggle_app_selection(f) ==
    IF ~IsSome(f.app_list_state) THEN f
    ELSE LET i == Unwrap(f.app_list_state)
         IN  IF i = 0 THEN [f EXCEPT !.selected_app_id = None]
             ELSE IF IsSome(VecGet(f.apps, i - 1))
                  THEN [f EXCEPT !.selected_app_id = VecGet(f.apps, i - 1)]
                  ELSE f

next_level(f) ==
    LET i == UnwrapOr(f.level_list_state, 0)
    IN  [f EXCEPT !.level_list_state =
            Some(IF i >= Len(LogLevel_all) - 1 THEN 0 ELSE i + 1)]

previous_level(f) ==
    LET i == UnwrapOr(f.level_list_state, 0)
    IN  [f EXCEPT !.level_list_state =
            Some(IF i = 0 THEN Len(LogLevel_all) - 1 ELSE i - 1)]

\* Vec::contains
Contains(s, x) == \E i \in 1..Len(s) : s[i] = x

\* Vec::retain(|l| l != x)
RECURSIVE Without(_, _)
Without(s, x) ==
    IF s = <<>> THEN <<>>
    ELSE IF Head(s) = x THEN Without(Tail(s), x)
         ELSE <<Head(s)>> \o Without(Tail(s), x)

\* toggle_level_selection whose `contains` branch forgets the retain
toggle_level_selection_NeverRemoves(f) ==
    IF ~IsSome(f.level_list_state) THEN f
    ELSE LET level == VecGet(LogLevel_all, Unwrap(f.level_list_state))
         IN  IF ~IsSome(level) THEN f
             ELSE IF Contains(f.selected_levels, Unwrap(level))
                  THEN f
                  ELSE [f EXCEPT !.selected_levels = Append(@, Unwrap(level))]

toggle_level_selection(f) ==
    IF ~IsSome(f.level_list_state) THEN f
    ELSE LET level == VecGet(LogLevel_all, Unwrap(f.level_list_state))
         IN  IF ~IsSome(level) THEN f
             ELSE IF Contains(f.selected_levels, Unwrap(level))
                  THEN [f EXCEPT !.selected_levels = Without(@, Unwrap(level))]
                  ELSE [f EXCEPT !.selected_levels = Append(@, Unwrap(level))]

\* next_time_range that selects the preset it moves the highlight to
next_time_range_Selects(f) ==
    LET i == UnwrapOr(f.time_list_state, 0)
        n == IF i >= Len(TimeRangePreset_all) - 1 THEN 0 ELSE i + 1
    IN  [f EXCEPT !.time_list_state = Some(n),
                  !.time_range = Unwrap(VecGet(TimeRangePreset_all, n))]

next_time_range(f) ==
    LET i == UnwrapOr(f.time_list_state, 0)
    IN  [f EXCEPT !.time_list_state =
            Some(IF i >= Len(TimeRangePreset_all) - 1 THEN 0 ELSE i + 1)]

previous_time_range(f) ==
    LET i == UnwrapOr(f.time_list_state, 0)
    IN  [f EXCEPT !.time_list_state =
            Some(IF i = 0 THEN Len(TimeRangePreset_all) - 1 ELSE i - 1)]

select_time_range(f) ==
    IF ~IsSome(f.time_list_state) THEN f
    ELSE LET preset == VecGet(TimeRangePreset_all, Unwrap(f.time_list_state))
         IN  IF IsSome(preset) THEN [f EXCEPT !.time_range = Unwrap(preset)] ELSE f

\* FilterState::handle_key: the new FilterState and the bool it returns
FilterState_handle_key(f, key) ==
    CASE f.active_field = "Search" ->
            (CASE IsChar(key) ->
                    [fs |-> [f EXCEPT !.search_text = @ + 1], apply |-> FALSE]
               [] key = "Backspace" ->
                    [fs |-> [f EXCEPT !.search_text = SaturatingSub(@, 1)],
                     apply |-> FALSE]
               [] key = "Enter" -> [fs |-> f, apply |-> TRUE]
               [] key = "Tab" ->
                    [fs |-> [f EXCEPT !.active_field = "App"], apply |-> FALSE]
               [] OTHER -> [fs |-> f, apply |-> FALSE])
      [] f.active_field = "App" ->
            [fs |-> CASE IsUp(key) -> previous_app(f)
                      [] IsDown(key) -> next_app(f)
                      [] IsSelect(key) -> toggle_app_selection(f)
                      [] key = "Tab" -> [f EXCEPT !.active_field = "Levels"]
                      [] OTHER -> f,
             apply |-> FALSE]
      [] f.active_field = "Levels" ->
            [fs |-> CASE IsUp(key) -> previous_level(f)
                      [] IsDown(key) -> next_level(f)
                      [] IsSelect(key) -> toggle_level_selection(f)
                      [] key = "Tab" -> [f EXCEPT !.active_field = "TimeRange"]
                      [] OTHER -> f,
             apply |-> FALSE]
      [] OTHER ->
            [fs |-> CASE IsUp(key) -> previous_time_range(f)
                      [] IsDown(key) -> next_time_range(f)
                      [] IsSelect(key) -> select_time_range(f)
                      [] key = "Tab" -> [f EXCEPT !.active_field = "Search"]
                      [] OTHER -> f,
             apply |-> FALSE]

(***************************************************************************)
(* LogFilters (api/models.rs) and its compilation from the FilterState.    *)
(* Instants and durations are counted in seconds.                          *)
(***************************************************************************)
\* chrono::Duration::hours(n) and ::days(n)
DurationHours(n) == n * 3600
DurationDays(n) == n * 86400

LogFilters_default ==
    [app_id |-> None, levels |-> <<>>, search |-> None,
     start_time |-> None, end_time |-> None, limit |-> 100, offset |-> 0]

\* to_log_filters whose relative presets forget to subtract the duration
to_log_filters_NoWidth(f, now1, now2) ==
    LET times ==
            IF f.time_range \in {"Last1Hour", "Last24Hours", "Last7Days"}
            THEN <<Some(now1), Some(now2)>>
            ELSE <<None, None>>
    IN  [app_id |-> f.selected_app_id,
         levels |-> f.selected_levels,
         search |-> IF f.search_text = 0 THEN None ELSE Some(f.search_text),
         start_time |-> times[1],
         end_time |-> times[2],
         limit |-> 100,
         offset |-> 0]

\* FilterState::to_log_filters; now1 and now2 are what the two calls of
\* Utc::now() in the matched arm return, in this order
to_log_filters(f, now1, now2) ==
    LET times ==
            CASE f.time_range = "Last1Hour" ->
                    <<Some(now1 - DurationHours(1)), Some(now2)>>
              [] f.time_range = "Last24Hours" ->
                    <<Some(now1 - DurationDays(1)), Some(now2)>>
              [] f.time_range = "Last7Days" ->
                    <<Some(now1 - DurationDays(7)), Some(now2)>>
              [] OTHER -> <<None, None>>
    IN  [app_id |-> f.selected_app_id,
         levels |-> f.selected_levels,
         search |-> IF f.search_text = 0 THEN None ELSE Some(f.search_text),
         start_time |-> times[1],
         end_time |-> times[2],
         limit |-> 100,
         offset |-> 0]

(***************************************************************************)
(* ApiClient (api/client.rs).  A response is what the server and the       *)
(* transport produce: [sent, status, body], body being None when it does   *)
(* not decode and Some(n) when it decodes to n items.  A Result is         *)
(* [ok, val, err].                                                         *)
(***************************************************************************)
Ok(v) == [ok |-> TRUE, val |-> v, err |-> ""]
Err(e) == [ok |-> FALSE, val |-> <<>>, err |-> e]

StatusUnauthorized == 401
IsSuccess(status) == status >= 200 /\ status < 300

ApiClient_login(resp) ==
    IF ~resp.sent THEN Err("Failed to send login request")
    ELSE IF resp.status = StatusUnauthorized THEN Err("Invalid credentials")
    ELSE IF ~IsSuccess(resp.status) THEN Err("Login failed: status")
    ELSE IF ~IsSome(resp.body) THEN Err("Failed to parse login response")
    ELSE Ok(<<>>)

\* the applications decode to the ids 1..n
get_apps(resp) ==
    IF ~resp.sent THEN Err("Failed to fetch applications")
    ELSE IF resp.status = StatusUnauthorized
         THEN Err("Session expired. Please login again.")
    ELSE IF ~IsSuccess(resp.status) THEN Err("Failed to fetch applications: status")
    ELSE IF ~IsSome(resp.body) THEN Err("Failed to parse applications response")
    ELSE Ok([i \in 1..Unwrap(resp.body) |-> i])

\* get_logs without the test for UNAUTHORIZED
get_logs_NoUnauthorized(resp) ==
    IF ~resp.sent THEN Err("Failed to fetch logs")
    ELSE IF ~IsSuccess(resp.status) THEN Err("Failed to fetch logs: status")
    ELSE IF ~IsSome(resp.body) THEN Err("Failed to parse logs response")
    ELSE Ok(FetchedLogs(Unwrap(resp.body)))

get_logs(resp) ==
    IF ~resp.sent THEN Err("Failed to fetch logs")
    ELSE IF resp.status = StatusUnauthorized
         THEN Err("Session expired. Please login again.")
    ELSE IF ~IsSuccess(resp.status) THEN Err("Failed to fetch logs: status")
    ELSE IF ~IsSome(resp.body) THEN Err("Failed to parse logs response")
    ELSE Ok(FetchedLogs(Unwrap(resp.body)))

ApiClient_export_logs(resp) ==
    IF ~resp.sent THEN Err("Failed to export logs")
    ELSE IF resp.status = StatusUnauthorized
         THEN Err("Session expired. Please login again.")
    ELSE IF ~IsSuccess(resp.status) THEN Err("Failed to export logs: status")
    ELSE IF ~IsSome(resp.body) THEN Err("Failed to read export response")
    ELSE Ok(Unwrap(resp.body))

(***************************************************************************)
(* The query parameters of the requests: a Vec of (key, value) pairs.  A   *)
(* value is the string sent: to_string of a number is <<"dec", n>>,        *)
(* to_rfc3339 of an instant <<"rfc3339", t>>, a search text <<"text", n>>  *)
(* (n its length), a level list the levels with the separators between.    *)
(***************************************************************************)
ExportFormat_as_str(selection) == IF selection = 0 THEN "json" ELSE "csv"

\* [String]::join(sep)
RECURSIVE Join(_, _)
Join(s, sep) ==
    IF Len(s) <= 1 THEN s
    ELSE <<Head(s), sep>> \o Join(Tail(s), sep)

\* the pushes shared by get_logs, get_logs_count and export_logs, the level
\* list going under `levelKey`
FilterParams(filters, levelKey) ==
    (IF IsSome(filters.app_id)
     THEN <<<<"app_id", <<"dec", Unwrap(filters.app_id)>>>>>> ELSE <<>>)
    \o (IF filters.levels # <<>>
        THEN <<<<levelKey, Join(filters.levels, ",")>>>> ELSE <<>>)
    \o (IF IsSome(filters.search) /\ Unwrap(filters.search) # 0
        THEN <<<<"search", <<"text", Unwrap(filters.search)>>>>>> ELSE <<>>)
    \o (IF IsSome(filters.start_time)
        THEN <<<<"start_time", <<"rfc3339", Unwrap(filters.start_time)>>>>>>
        ELSE <<>>)
    \o (IF IsSome(filters.end_time)
        THEN <<<<"end_time", <<"rfc3339", Unwrap(filters.end_time)>>>>>>
        ELSE <<>>)

get_logs_params(filters) ==
    <<<<"limit", <<"dec", filters.limit>>>>,
      <<"offset", <<"dec", filters.offset>>>>>>
        \o FilterParams(filters, "levels")

get_logs_count_params(filters) == FilterParams(filters, "levels")

\* export_logs sending the level list under the key get_logs uses
export_logs_params_Plural(format, filters) ==
    <<<<"format", ExportFormat_as_str(format)>>>>
        \o FilterParams(filters, "levels")

\* `format` is the ExportFormat as the index export_format_selection gives it
export_logs_params(format, filters) ==
    <<<<"format", ExportFormat_as_str(format)>>>>
        \o FilterParams(filters, "level")

\* the keys of a parameter list, and the values sent under one key
ParamKeys(params) == {params[i][1] : i \in 1..Len(params)}
ParamValues(params, key) ==
    {params[i][2] : i \in {j \in 1..Len(params) : params[j][1] = key}}
ParamCount(params, key) ==
    Cardinality({j \in 1..Len(params) : params[j][1] = key})

get_logs_count(resp) ==
    IF ~resp.sent THEN Err("Failed to fetch log count")
    ELSE IF resp.status = StatusUnauthorized
         THEN Err("Session expired. Please login again.")
    ELSE IF ~IsSuccess(resp.status) THEN Err("Failed to fetch log count: status")
    ELSE IF ~IsSome(resp.body) THEN Err("Failed to parse log count response")
    ELSE Ok(Unwrap(resp.body))

(***************************************************************************)
(* App (app.rs).  max_logs is config.ui.max_logs_in_memory; log_stream is  *)
(* an Option of the session number of the LogStream held.  A message is a  *)
(* tuple of strings: the format string, then its arguments.                *)
(*                                                                         *)
(* A handler takes r, what the outside produces should the handler ask:    *)
(* r.login, r.apps, r.logs, r.export are responses, r.write whether the    *)
(* export file could be written, r.stream the LogStream that               *)
(* LogStream::new returns.                                                 *)
(***************************************************************************)
App_new(max_logs, username, password) ==
    [state |-> "Login",
     max_logs |-> max_logs,
     login_state |-> [LoginState_default EXCEPT !.username = username,
                                                !.password = password],
     logs_view |-> LogsViewState_new,
     filter_state |-> None,
     apps |-> <<>>,
     tail_mode |-> FALSE,
     log_stream |-> None,
     status_message |-> None,
     should_quit |-> FALSE,
     export_format_selection |-> 0]

\* the match on api_client.login(..).await shared by both login paths
LoginAttempt(a, r) ==
    LET login == ApiClient_login(r.login)
        apps == get_apps(r.apps)
    IN  IF login.ok
        THEN IF apps.ok
             THEN [a EXCEPT !.apps = apps.val,
                            !.state = "Main",
                            !.status_message = Some(<<"Logged in successfully">>)]
             ELSE [a EXCEPT !.login_state =
                        set_error(@, <<"Failed to load apps: {}", apps.err>>)]
        ELSE [a EXCEPT !.login_state =
                        set_error(@, <<"Login failed: {}", login.err>>)]

\* try_auto_login without the tests that both fields are filled
try_auto_login_IgnoresEmpty(a, r) ==
    IF a.state = "Login" /\ ~a.login_state.is_submitting
    THEN LoginAttempt([a EXCEPT !.login_state.is_submitting = TRUE], r)
    ELSE a

try_auto_login(a, r) ==
    IF /\ a.state = "Login"
       /\ a.login_state.username # 0
       /\ a.login_state.password # 0
       /\ ~a.login_state.is_submitting
    THEN LoginAttempt([a EXCEPT !.login_state.is_submitting = TRUE], r)
    ELSE a

\* handle_login_key that does not call clear_error before the request
handle_login_key_KeepsError(a, key, r) ==
    IF key = "C-c" THEN [a EXCEPT !.should_quit = TRUE]
    ELSE LET h == LoginState_handle_key(a.login_state, key)
         IN  IF h.submit
             THEN LoginAttempt([a EXCEPT !.login_state =
                                    [h.ls EXCEPT !.is_submitting = TRUE]], r)
             ELSE [a EXCEPT !.login_state = h.ls]

handle_login_key(a, key, r) ==
    IF key = "C-c" THEN [a EXCEPT !.should_quit = TRUE]
    ELSE LET h == LoginState_handle_key(a.login_state, key)
         IN  IF h.submit
             THEN LoginAttempt(
                    [a EXCEPT !.login_state =
                        clear_error([h.ls EXCEPT !.is_submitting = TRUE])], r)
             ELSE [a EXCEPT !.login_state = h.ls]

\* refresh_logs that sends the user back to the login screen on a failure
refresh_logs_ReLogin(a, r) ==
    LET res == get_logs(r.logs)
    IN  IF res.ok
        THEN [a EXCEPT !.logs_view = set_logs(@, res.val),
                       !.status_message = Some(<<"Logs refreshed">>)]
        ELSE [a EXCEPT !.state = "Login",
                       !.status_message =
                            Some(<<"Failed to refresh logs: {}", res.err>>)]

\* refresh_logs that adds the records fetched to those shown
refresh_logs_Appends(a, r) ==
    LET res == get_logs(r.logs)
    IN  IF res.ok
        THEN [a EXCEPT !.logs_view = set_logs(@, @.logs \o res.val),
                       !.status_message = Some(<<"Logs refreshed">>)]
        ELSE [a EXCEPT !.status_message =
                        Some(<<"Failed to refresh logs: {}", res.err>>)]

refresh_logs(a, r) ==
    LET res == get_logs(r.logs)
    IN  IF res.ok
        THEN [a EXCEPT !.logs_view = set_logs(@, res.val),
                       !.status_message = Some(<<"Logs refreshed">>)]
        ELSE [a EXCEPT !.status_message =
                        Some(<<"Failed to refresh logs: {}", res.err>>)]

apply_filters(a, r) ==
    LET res == get_logs(r.logs)
    IN  IF res.ok
        THEN [a EXCEPT !.logs_view = set_logs(@, res.val),
                       !.status_message =
                            Some(<<"Found {} logs", ToString(Len(res.val))>>)]
        ELSE [a EXCEPT !.status_message =
                        Some(<<"Failed to apply filters: {}", res.err>>)]

\* toggle_tail_mode whose disabling branch forgets `self.log_stream = None`
toggle_tail_mode_KeepsStream(a, r) ==
    IF a.tail_mode
    THEN [a EXCEPT !.tail_mode = FALSE,
                   !.status_message = Some(<<"Tail mode disabled">>)]
    ELSE [a EXCEPT !.log_stream = Some(r.stream),
                   !.tail_mode = TRUE,
                   !.status_message = Some(<<"Tail mode enabled (LIVE)">>)]

\* toggle_tail_mode whose enabling branch takes the Err arm of its match
toggle_tail_mode_ReportsFailure(a, r) ==
    IF a.tail_mode
    THEN [a EXCEPT !.tail_mode = FALSE,
                   !.log_stream = None,
                   !.status_message = Some(<<"Tail mode disabled">>)]
    ELSE [a EXCEPT !.status_message =
                    Some(<<"Failed to enable tail mode: {}", "connect">>)]

toggle_tail_mode(a, r) ==
    IF a.tail_mode
    THEN [a EXCEPT !.tail_mode = FALSE,
                   !.log_stream = None,
                   !.status_message = Some(<<"Tail mode disabled">>)]
    ELSE [a EXCEPT !.log_stream = Some(r.stream),
                   !.tail_mode = TRUE,
                   !.status_message = Some(<<"Tail mode enabled (LIVE)">>)]


export_logs(a, r) ==
    LET res == ApiClient_export_logs(r.export)
    IN  IF res.ok
        THEN IF r.write
             THEN [a EXCEPT !.status_message = Some(<<"Logs exported to {}">>)]
             ELSE [a EXCEPT !.status_message = Some(<<"Failed to write file: {}">>)]
        ELSE [a EXCEPT !.status_message =
                        Some(<<"Failed to export logs: {}", res.err>>)]

\* the query parameters refresh_logs has get_logs send
refresh_logs_params(a) == get_logs_params(LogFilters_default)

\* the query parameters App::export_logs has export_logs send
App_export_logs_params(a) ==
    export_logs_params(IF a.export_format_selection = 0 THEN 0 ELSE 1,
                       LogFilters_default)

handle_main_key(a, key, r) ==
    CASE key = "q" -> [a EXCEPT !.should_quit = TRUE]
      [] key = "?" -> [a EXCEPT !.state = "Help"]
      [] key = "f" -> [a EXCEPT !.state = "FilterPanel",
                                !.filter_state = Some(FilterState_new(a.apps))]
      [] key = "r" -> refresh_logs(a, r)
      [] key = "t" -> toggle_tail_mode(a, r)
      [] key = "e" -> [a EXCEPT !.state = "ExportMenu",
                                !.export_format_selection = 0]
      [] IsUp(key) -> [a EXCEPT !.logs_view = previous(@)]
      [] IsDown(key) -> [a EXCEPT !.logs_view = next(@)]
      [] key = "g" -> [a EXCEPT !.logs_view = select_first(@)]
      [] key = "G" -> [a EXCEPT !.logs_view = select_last(@)]
      [] key = "C-u" -> [a EXCEPT !.logs_view = page_up(@)]
      [] key = "C-d" -> [a EXCEPT !.logs_view = page_down(@)]
      [] key = "Enter" ->
            IF IsSome(selected_log(a.logs_view))
            THEN [a EXCEPT !.state = "LogDetail"] ELSE a
      [] OTHER -> a

\* handle_filter_key whose Esc leaves the FilterState behind
handle_filter_key_KeepsModel(a, key, r) ==
    IF key = "Esc" THEN [a EXCEPT !.state = "Main"]
    ELSE IF IsSome(a.filter_state)
         THEN LET h == FilterState_handle_key(Unwrap(a.filter_state), key)
              IN  IF h.apply \/ key = "Enter"
                  THEN [apply_filters(a, r) EXCEPT !.state = "Main",
                                                   !.filter_state = None]
                  ELSE [a EXCEPT !.filter_state = Some(h.fs)]
         ELSE a

handle_filter_key(a, key, r) ==
    IF key = "Esc" THEN [a EXCEPT !.state = "Main", !.filter_state = None]
    ELSE IF IsSome(a.filter_state)
         THEN LET h == FilterState_handle_key(Unwrap(a.filter_state), key)
              IN  IF h.apply \/ key = "Enter"
                  THEN [apply_filters(a, r) EXCEPT !.state = "Main",
                                                   !.filter_state = None]
                  ELSE [a EXCEPT !.filter_state = Some(h.fs)]
         ELSE a

\* the LogFilters handle_filter_key compiles and hands to apply_filters,
\* None when it applies nothing; now1, now2 as in to_log_filters
handle_filter_key_filters(a, key, now1, now2) ==
    IF key = "Esc" \/ ~IsSome(a.filter_state) THEN None
    ELSE LET h == FilterState_handle_key(Unwrap(a.filter_state), key)
         IN  IF h.apply \/ key = "Enter"
             THEN Some(to_log_filters(h.fs, now1, now2))
             ELSE None

\* handle_detail_key that takes 'q' for the quit key
handle_detail_key_Quits(a, key) ==
    IF key = "q" THEN [a EXCEPT !.should_quit = TRUE]
    ELSE IF key = "Esc" THEN [a EXCEPT !.state = "Main"] ELSE a

handle_detail_key(a, key) ==
    IF key = "Esc" \/ key = "q" THEN [a EXCEPT !.state = "Main"] ELSE a

\* handle_help_key that stops the tail when the help screen is closed
handle_help_key_StopsTail(a, key) ==
    IF key = "Esc" \/ key = "?"
    THEN [a EXCEPT !.state = "Main", !.tail_mode = FALSE, !.log_stream = None]
    ELSE a

handle_help_key(a, key) ==
    IF key = "Esc" \/ key = "?" THEN [a EXCEPT !.state = "Main"] ELSE a

\* handle_export_key stepping through three formats
handle_export_key_ThreeFormats(a, key, r) ==
    CASE key = "Esc" \/ key = "q" -> [a EXCEPT !.state = "Main"]
      [] IsUp(key) \/ IsDown(key) ->
            [a EXCEPT !.export_format_selection = (@ + 1) % 3]
      [] key = "Enter" -> [export_logs(a, r) EXCEPT !.state = "Main"]
      [] OTHER -> a

handle_export_key(a, key, r) ==
    CASE key = "Esc" \/ key = "q" -> [a EXCEPT !.state = "Main"]
      [] IsUp(key) \/ IsDown(key) ->
            [a EXCEPT !.export_format_selection = (@ + 1) % 2]
      [] key = "Enter" -> [export_logs(a, r) EXCEPT !.state = "Main"]
      [] OTHER -> a

handle_key(a, key, r) ==
    CASE a.state = "Login" -> handle_login_key(a, key, r)
      [] a.state = "Main" -> handle_main_key(a, key, r)
      [] a.state = "FilterPanel" -> handle_filter_key(a, key, r)
      [] a.state = "LogDetail" -> handle_detail_key(a, key)
      [] a.state = "Help" -> handle_help_key(a, key)
      [] OTHER -> handle_export_key(a, key, r)

\* poll_stream that receives the record and does not insert it
poll_stream_Discard(a, received) == a

\* poll_stream that truncates one record too late
poll_stream_OffByOne(a, received) ==
    IF IsSome(a.log_stream) /\ IsSome(received)
    THEN LET logs == InsertFront(a.logs_view.logs, Unwrap(received))
         IN  [a EXCEPT !.logs_view.logs =
                        IF Len(logs) > a.max_logs + 1 THEN Truncate(logs, a.max_logs)
                        ELSE logs]
    ELSE a

\* poll_stream that pushes the record at the end instead of inserting at 0
poll_stream_Push(a, received) ==
    IF IsSome(a.log_stream) /\ IsSome(received)
    THEN LET logs == Append(a.logs_view.logs, Unwrap(received))
         IN  [a EXCEPT !.logs_view.logs =
                        IF Len(logs) > a.max_logs THEN Truncate(logs, a.max_logs)
                        ELSE logs]
    ELSE a

\* poll_stream once stream.next().await has returned `received`
\* poll_stream that moves the cursor along with the record it designated
poll_stream_FollowsRecord(a, received) ==
    IF IsSome(a.log_stream) /\ IsSome(received)
    THEN LET logs == InsertFront(a.logs_view.logs, Unwrap(received))
         IN  [a EXCEPT !.logs_view.logs =
                        IF Len(logs) > a.max_logs THEN Truncate(logs, a.max_logs)
                        ELSE logs,
                       !.logs_view.selected =
                        IF IsSome(@) THEN Some(Unwrap(@) + 1) ELSE @]
    ELSE a

\* poll_stream that gives the tail stream up once recv() returns None
poll_stream_DropsOnEnd(a, received) ==
    IF IsSome(a.log_stream) /\ IsSome(received)
    THEN LET logs == InsertFront(a.logs_view.logs, Unwrap(received))
         IN  [a EXCEPT !.logs_view.logs =
                        IF Len(logs) > a.max_logs THEN Truncate(logs, a.max_logs)
                        ELSE logs]
    ELSE [a EXCEPT !.log_stream = None]

poll_stream(a, received) ==
    IF IsSome(a.log_stream) /\ IsSome(received)
    THEN LET logs == InsertFront(a.logs_view.logs, Unwrap(received))
         IN  [a EXCEPT !.logs_view.logs =
                        IF Len(logs) > a.max_logs THEN Truncate(logs, a.max_logs)
                        ELSE logs]
    ELSE a

\* the " [LIVE]" indicator of get_status_line
tail_indicator(a) == IF a.tail_mode THEN " [LIVE]" ELSE ""

(***************************************************************************)
(* LogStream (api/sse.rs): the spawned ingestion task and its channel.     *)
(* The task of a LogStream is "unborn" before LogStream::new, "reading"    *)
(* while it awaits stream.next(), "sending" while it awaits tx.send(log),  *)
(* and "exited" once its loop is left (tx and the connection are dropped). *)
(***************************************************************************)
\* what stream.next().await yields
EventKinds == {"record", "malformed", "comment", "connected", "error", "end"}

\* the loop body leaving the loop on a record that does not decode
OnEvent_BreakOnMalformed(s, e) ==
    CASE e = "record" ->
            [task |-> "sending", pending |-> Some(TailLog(s, decoded[s] + 1)),
             decoded |-> decoded[s] + 1]
      [] e \in {"comment", "connected"} ->
            [task |-> "reading", pending |-> None, decoded |-> decoded[s]]
      [] OTHER ->
            [task |-> "exited", pending |-> None, decoded |-> decoded[s]]

\* the task's loop body on one event, before any send:
\* [task, pending, decoded] of LogStream s
OnEvent(s, e) ==
    CASE e = "record" ->
            [task |-> "sending", pending |-> Some(TailLog(s, decoded[s] + 1)),
             decoded |-> decoded[s] + 1]
      [] e \in {"malformed", "comment", "connected"} ->
            [task |-> "reading", pending |-> None, decoded |-> decoded[s]]
      [] OTHER ->
            [task |-> "exited", pending |-> None, decoded |-> decoded[s]]

\* a send whose failure is ignored: the loop goes on after a closed receiver
Send_IgnoresClosed(s) ==
    IF ~rxOpen[s] THEN {[task |-> "reading", chan |-> chan[s]]}
    ELSE IF Len(chan[s]) < ChannelCapacity
         THEN {[task |-> "reading", chan |-> Append(chan[s], Unwrap(pending[s]))]}
         ELSE {}

\* try_send in place of send: a full buffer loses the record
Send_DropWhenFull(s) ==
    IF ~rxOpen[s] THEN {[task |-> "exited", chan |-> chan[s]]}
    ELSE IF Len(chan[s]) < ChannelCapacity
         THEN {[task |-> "reading", chan |-> Append(chan[s], Unwrap(pending[s]))]}
         ELSE {[task |-> "reading", chan |-> chan[s]]}

\* tx.send(log).await: the outcomes it can complete with, none while it waits:
\* [task, chan] of LogStream s
Send(s) ==
    IF ~rxOpen[s] THEN {[task |-> "exited", chan |-> chan[s]]}
    ELSE IF Len(chan[s]) < ChannelCapacity
         THEN {[task |-> "reading", chan |-> Append(chan[s], Unwrap(pending[s]))]}
         ELSE {}

\* recv() replaced by a read that never waits (try_recv): an empty buffer
\* gives None at once, whatever the task does
Recv_TryRecv(s) ==
    IF chan[s] # <<>> THEN {[log |-> Some(Head(chan[s])), chan |-> Tail(chan[s])]}
    ELSE {[log |-> None, chan |-> chan[s]]}

\* receiver.recv().await: the outcomes it can complete with, none while it waits:
\* [log, chan] of LogStream s
Recv(s) ==
    IF chan[s] # <<>> THEN {[log |-> Some(Head(chan[s])), chan |-> Tail(chan[s])]}
    ELSE IF task[s] = "exited" THEN {[log |-> None, chan |-> chan[s]]}
         ELSE {}

\* the LogStream the next LogStream::new creates
FreshStreams == {s \in Sessions : task[s] = "unborn" /\ \A t \in 1..(s - 1) : task[t] # "unborn"}

\* rxOpen once App.log_stream has gone from `old` to `new`:
\* an Option<LogStream> overwritten or set to None drops its Receiver
ReceiversAfter(old, new) ==
    [s \in Sessions |->
        IF new = Some(s) THEN TRUE
        ELSE IF old = Some(s) THEN FALSE
        ELSE rxOpen[s]]

\* dropping a Receiver drops what its buffer holds
BuffersAfter(rx) == [s \in Sessions |-> IF rx[s] THEN chan[s] ELSE <<>>]

\* tokio::spawn in LogStream::new
TasksAfter(old, new) ==
    [s \in Sessions |-> IF new = Some(s) /\ old # new THEN "reading" ELSE task[s]]

TaskEvent(s, traced) ==
    /\ task[s] = "reading"
    /\ \E e \in EventKinds :
          /\ e = "record" => decoded[s] < MaxRecords
          /\ event' = IF traced THEN [event EXCEPT ![s] = e] ELSE event
          /\ LET o == OnEvent(s, e)
             IN  /\ task' = [task EXCEPT ![s] = o.task]
                 /\ pending' = [pending EXCEPT ![s] = o.pending]
                 /\ decoded' = [decoded EXCEPT ![s] = o.decoded]
    /\ UNCHANGED <<pc, app, chan, rxOpen>>

TaskSend(s) ==
    /\ task[s] = "sending"
    /\ \E o \in Send(s) :
          /\ task' = [task EXCEPT ![s] = o.task]
          /\ chan' = [chan EXCEPT ![s] = o.chan]
    /\ pending' = [pending EXCEPT ![s] = None]
    /\ UNCHANGED <<pc, app, rxOpen, decoded, event>>

(***************************************************************************)
(* run_app (main.rs).  One tick is: draw, event::poll and handle_key       *)
(* ("event"), then poll_stream when tail_mode and the should_quit test     *)
(* ("stream").  Drawing reads the App and is part of the "event" step.     *)
(***************************************************************************)
Response(status, body) == [sent |-> TRUE, status |-> status, body |-> body]
NotSent == [sent |-> FALSE, status |-> 0, body |-> None]
Unasked == {NotSent}

\* the remote calls App::handle_key issues on `key`
AsksLogin(key) == app.state = "Login" /\ key = "Enter"
AsksLogs(key) ==
    \/ app.state = "Main" /\ key = "r"
    \/ app.state = "FilterPanel" /\ key = "Enter"
AsksExport(key) == app.state = "ExportMenu" /\ key = "Enter"
AsksStream(key) == app.state = "Main" /\ key = "t" /\ ~app.tail_mode

\* What the outside can produce on `key`.  w holds the responses the server
\* gives to each call (w.login, w.apps, w.logs, w.export) and the LogStreams
\* that may be created (w.streams).
Outside(w, key) ==
    [login : IF AsksLogin(key) THEN w.login ELSE Unasked,
     apps : IF AsksLogin(key) THEN w.apps ELSE Unasked,
     logs : IF AsksLogs(key) THEN w.logs ELSE Unasked,
     export : IF AsksExport(key) THEN w.export ELSE Unasked,
     write : IF AsksExport(key) THEN BOOLEAN ELSE {TRUE},
     stream : IF AsksStream(key) THEN FreshStreams \cap w.streams ELSE {0}]

StreamsFollow ==
    /\ rxOpen' = ReceiversAfter(app.log_stream, app'.log_stream)
    /\ chan' = BuffersAfter(rxOpen')
    /\ task' = TasksAfter(app.log_stream, app'.log_stream)

AutoLogin(w) ==
    /\ pc = "start"
    /\ \E login \in w.login, apps \in w.apps :
          app' = try_auto_login(app, [login |-> login, apps |-> apps])
    /\ pc' = "event"
    /\ UNCHANGED <<task, chan, rxOpen, pending, decoded, event>>

KeyEvent(keys, w) ==
    /\ pc = "event"
    /\ \E key \in keys : \E r \in Outside(w, key) : app' = handle_key(app, key, r)
    /\ StreamsFollow
    /\ pc' = "stream"
    /\ UNCHANGED <<pending, decoded, event>>

\* event::poll timed out, or the event read was not a key
NoKeyEvent ==
    /\ pc = "event"
    /\ pc' = "stream"
    /\ UNCHANGED <<app, task, chan, rxOpen, pending, decoded, event>>

AfterTick(a) == IF a.should_quit THEN "done" ELSE "event"

PollStream ==
    /\ pc = "stream"
    /\ app.tail_mode
    /\ IF IsSome(app.log_stream)
       THEN \E o \in Recv(Unwrap(app.log_stream)) :
               /\ app' = poll_stream(app, o.log)
               /\ chan' = [chan EXCEPT ![Unwrap(app.log_stream)] = o.chan]
       ELSE UNCHANGED <<app, chan>>
    /\ pc' = AfterTick(app')
    /\ UNCHANGED <<task, rxOpen, pending, decoded, event>>

SkipStream ==
    /\ pc = "stream"
    /\ ~app.tail_mode
    /\ pc' = AfterTick(app)
    /\ UNCHANGED <<app, task, chan, rxOpen, pending, decoded, event>>

\* main returns after run_app: the App is dropped, and the runtime, shutting
\* down, drops every task still spawned
Exit ==
    /\ pc = "done"
    /\ pc' = "exited"
    /\ task' = [s \in Sessions |-> IF task[s] = "unborn" THEN "unborn" ELSE "exited"]
    /\ rxOpen' = [s \in Sessions |-> FALSE]
    /\ chan' = [s \in Sessions |-> <<>>]
    /\ pending' = [s \in Sessions |-> None]
    /\ UNCHANGED <<app, decoded, event>>

\* main: Config::load and the CLI arguments, then App::new
InitWith(caps, usernames, passwords) ==
    /\ pc = "start"
    /\ \E max_logs \in caps, username \in usernames, password \in passwords :
          app = App_new(max_logs, username, password)
    /\ task = [s \in Sessions |-> "unborn"]
    /\ chan = [s \in Sessions |-> <<>>]
    /\ rxOpen = [s \in Sessions |-> FALSE]
    /\ pending = [s \in Sessions |-> None]
    /\ decoded = [s \in Sessions |-> 0]
    /\ event = [s \in Sessions |-> "none"]

Loop(keys, w) ==
    \/ AutoLogin(w)
    \/ KeyEvent(keys, w)
    \/ NoKeyEvent
    \/ PollStream
    \/ SkipStream
    \/ Exit

Ingestion(traced) ==
    \/ \E s \in Sessions : TaskEvent(s, traced)
    \/ \E s \in Sessions : TaskSend(s)

Ok200(n) == Response(200, Some(n))

(***************************************************************************)
(* Spec: the tail lifecycle.  Credentials are pre-supplied, the user       *)
(* toggles the tail and quits, streams come and go.                        *)
(***************************************************************************)
TailKeys == {"t", "q"}
TailWorld ==
    [login |-> {Ok200(0)}, apps |-> {Ok200(0)}, logs |-> Unasked,
     export |-> Unasked, streams |-> Sessions]

Init == InitWith(0..MaxCap, {1}, {1})

Next == Loop(TailKeys, TailWorld) \/ Ingestion(FALSE)

Spec == Init /\ [][Next]_vars

(***************************************************************************)
(* FairSpec: Spec with the progress the runtime gives.  event::poll        *)
(* returns after its timeout, so a tick that can go on does; tokio runs a  *)
(* task whose send can complete; main returns once run_app has.  Nothing   *)
(* makes the user press a key or the server emit an event.                 *)
(***************************************************************************)
FairSpec ==
    /\ Spec
    /\ WF_vars(AutoLogin(TailWorld))
    /\ WF_vars(NoKeyEvent)
    /\ WF_vars(PollStream)
    /\ WF_vars(SkipStream)
    /\ WF_vars(Exit)
    /\ \A s \in Sessions : WF_vars(TaskSend(s))

(***************************************************************************)
(* SpecView: the view state.  The user refreshes, moves the cursor, opens  *)
(* the detail popup and tails one stream.                                  *)
(***************************************************************************)
ViewKeys == {"r", "t", "q", "k", "j", "g", "G", "C-u", "C-d", "Enter", "Esc"}
ViewWorld ==
    [login |-> {Ok200(0)}, apps |-> {Ok200(0)},
     logs |-> {Ok200(n) : n \in 0..MaxFetch} \cup {Response(500, None)},
     export |-> Unasked, streams |-> {1}]

InitView == InitWith(0..MaxCap, {1}, {1})

NextView == Loop(ViewKeys, ViewWorld) \/ Ingestion(FALSE)

SpecView == InitView /\ [][NextView]_vars

(***************************************************************************)
(* SpecIngest: one stream, the events its task matches being recorded.     *)
(***************************************************************************)
IngestWorld ==
    [login |-> {Ok200(0)}, apps |-> {Ok200(0)}, logs |-> Unasked,
     export |-> Unasked, streams |-> {1}]

InitIngest == InitWith({MaxCap}, {1}, {1})

NextIngest == Loop(TailKeys, IngestWorld) \/ Ingestion(TRUE)

SpecIngest == InitIngest /\ [][NextIngest]_vars

(***************************************************************************)
(* FairTail: one stream tailed, with the progress the runtime gives (as in *)
(* FairSpec): the loop ticks, a send that can complete does, main returns. *)
(***************************************************************************)
InitTail == InitWith(0..MaxCap, {1}, {1})

NextTail == Loop(TailKeys, IngestWorld) \/ Ingestion(FALSE)

FairTail ==
    /\ InitTail /\ [][NextTail]_vars
    /\ WF_vars(AutoLogin(IngestWorld))
    /\ WF_vars(NoKeyEvent)
    /\ WF_vars(PollStream)
    /\ WF_vars(SkipStream)
    /\ WF_vars(Exit)
    /\ \A s \in Sessions : WF_vars(TaskSend(s))

(***************************************************************************)
(* The keys the user is offered.  A field of text grows by one character   *)
(* per Char key; the user stops typing into a field that holds MaxText     *)
(* characters.                                                             *)
(***************************************************************************)
\* `key` would push a character onto a String
Typing(key) ==
    \/ app.state = "Login" /\ key # "C-c" /\ IsChar(key)
    \/ /\ app.state = "FilterPanel"
       /\ IsSome(app.filter_state)
       /\ Unwrap(app.filter_state).active_field = "Search"
       /\ IsChar(key)

\* length of the String a Char key would push onto
TextLen ==
    IF app.state = "Login"
    THEN (IF app.login_state.active_field = "Username"
          THEN app.login_state.username ELSE app.login_state.password)
    ELSE IF app.state = "FilterPanel" /\ IsSome(app.filter_state)
         THEN Unwrap(app.filter_state).search_text
         ELSE 0

Offered(keys) == {key \in keys : Typing(key) => TextLen < MaxText}

\* the answers a server and the transport can give to a call whose body
\* decodes to one of `bodies`
Answers(bodies) ==
    {Ok200(n) : n \in bodies}
        \cup {Response(200, None), Response(401, None), Response(500, None), NotSent}

(***************************************************************************)
(* SpecLogin: the login screen.  Credentials are pre-supplied or not, the  *)
(* user types, switches field and submits, the server accepts or refuses.  *)
(***************************************************************************)
LoginKeys == {"Char", "Backspace", "Tab", "Enter", "Esc", "C-c", "t"}
LoginWorld ==
    [login |-> Answers({0}), apps |-> Answers(0..MaxApps), logs |-> Unasked,
     export |-> Unasked, streams |-> {1}]

InitLogin == InitWith({MaxCap}, {0, 1}, {0, 1})

NextLogin ==
    \/ AutoLogin(LoginWorld)
    \/ KeyEvent(Offered(LoginKeys), LoginWorld)
    \/ NoKeyEvent
    \/ PollStream
    \/ SkipStream
    \/ Exit
    \/ Ingestion(FALSE)

SpecLogin == InitLogin /\ [][NextLogin]_vars

(***************************************************************************)
(* SpecScreens: the screens.  The user logs in, opens and closes the       *)
(* overlays, refreshes, applies filters and exports, the server answering  *)
(* or failing each call.  The user never presses 't', so tail mode stays   *)
(* off and run_app never calls poll_stream.                                *)
(***************************************************************************)
ScreenKeys == {"q", "?", "f", "r", "e", "Enter", "Esc", "Tab"}
ScreenWorld ==
    [login |-> {Ok200(0), Response(401, None)},
     apps |-> {Ok200(MaxApps), Response(500, None)},
     logs |-> {Ok200(n) : n \in 0..MaxFetch} \cup {Response(401, None), NotSent},
     export |-> {Ok200(0), Response(500, None)},
     streams |-> {}]

InitScreens == InitWith({MaxCap}, {1}, {1})

NextScreens ==
    \/ AutoLogin(ScreenWorld)
    \/ KeyEvent(Offered(ScreenKeys), ScreenWorld)
    \/ NoKeyEvent
    \/ SkipStream
    \/ Exit

SpecScreens == InitScreens /\ [][NextScreens]_vars

(***************************************************************************)
(* SpecTailScreens: the overlays while one stream is tailed.               *)
(***************************************************************************)
TailScreenKeys == {"t", "?", "f", "e", "Enter", "Esc", "q"}
TailScreenWorld ==
    [login |-> {Ok200(0)}, apps |-> {Ok200(0)},
     logs |-> {Ok200(1), NotSent},
     export |-> {Ok200(0)},
     streams |-> {1}]

InitTailScreens == InitWith({MaxCap}, {1}, {1})

NextTailScreens == Loop(TailScreenKeys, TailScreenWorld) \/ Ingestion(FALSE)

SpecTailScreens == InitTailScreens /\ [][NextTailScreens]_vars

(***************************************************************************)
(* Properties.                                                             *)
(***************************************************************************)
(***************************************************************************)
(* SpecLevels: the level list of the filter panel.  The user logs in,      *)
(* opens the panel, walks the fields, moves over the levels and toggles    *)
(* them, applies and quits; the cursor keys and Space are pressed only on  *)
(* the level list, and nothing is typed into the search field.             *)
(***************************************************************************)
\* the filter panel is open on `field`
OnField(field) ==
    /\ app.state = "FilterPanel"
    /\ IsSome(app.filter_state)
    /\ Unwrap(app.filter_state).active_field = field

LevelKeys == {"f", "Tab", "j", "k", "Space", "Enter", "q"}
LevelWorld ==
    [login |-> {Ok200(0)}, apps |-> {Ok200(0)},
     logs |-> {Ok200(0)},
     export |-> Unasked,
     streams |-> {}]

\* the keys of `keys` a user presses who types nothing and uses the cursor
\* keys and Space on the list of `field` only
OfferedOn(keys, field) ==
    {key \in keys :
        /\ ~Typing(key)
        /\ key \in {"j", "k", "Space"} => OnField(field)}

NextLevels ==
    \/ AutoLogin(LevelWorld)
    \/ KeyEvent(OfferedOn(LevelKeys, "Levels"), LevelWorld)
    \/ NoKeyEvent
    \/ SkipStream
    \/ Exit

SpecLevels == InitScreens /\ [][NextLevels]_vars

(***************************************************************************)
(* SpecTimeRange: the time list of the filter panel, used as SpecLevels    *)
(* uses the level list, the panel being cancelled as well.                 *)
(***************************************************************************)
TimeRangeKeys == {"f", "Tab", "j", "k", "Space", "Enter", "Esc", "q"}

NextTimeRange ==
    \/ AutoLogin(LevelWorld)
    \/ KeyEvent(OfferedOn(TimeRangeKeys, "TimeRange"), LevelWorld)
    \/ NoKeyEvent
    \/ SkipStream
    \/ Exit

SpecTimeRange == InitScreens /\ [][NextTimeRange]_vars

(***************************************************************************)
(* SpecFilter: the filter panel.  The user logs in, opens the panel, walks *)
(* the fields, the application list and the level list, selects an         *)
(* application and levels, applies or cancels, and quits; nothing is typed *)
(* into the search field, the cursor keys and Space are not pressed on the *)
(* time list, and at most MaxLevels levels are selected at a time.         *)
(***************************************************************************)
MaxLevels == 2

\* handling `key` would push one more level onto selected_levels
AddsLevel(key) ==
    /\ OnField("Levels")
    /\ IsSelect(key)
    /\ toggle_level_selection(Unwrap(app.filter_state)).selected_levels
          # Without(Unwrap(app.filter_state).selected_levels,
                    Unwrap(VecGet(LogLevel_all,
                        Unwrap(Unwrap(app.filter_state).level_list_state))))

FilterKeys == {"f", "Tab", "j", "k", "Space", "Enter", "Esc", "q"}
FilterWorld ==
    [login |-> {Ok200(0)}, apps |-> {Ok200(MaxApps)},
     logs |-> {Ok200(0), Response(500, None)},
     export |-> Unasked,
     streams |-> {}]

OfferedFilter ==
    {key \in FilterKeys :
        /\ ~Typing(key)
        /\ key \in {"j", "k", "Space"} => ~OnField("TimeRange")
        /\ AddsLevel(key)
              => Len(Unwrap(app.filter_state).selected_levels) < MaxLevels}

NextFilter ==
    \/ AutoLogin(FilterWorld)
    \/ KeyEvent(OfferedFilter, FilterWorld)
    \/ NoKeyEvent
    \/ SkipStream
    \/ Exit

SpecFilter == InitScreens /\ [][NextFilter]_vars

(***************************************************************************)
(* SpecApi: the remote calls.  The user logs in, refreshes, applies the    *)
(* filter panel as it opens and exports; every call is answered with a     *)
(* success, decodable or not, a 401, another status, or is not sent.       *)
(***************************************************************************)
ApiAnswers(bodies) ==
    Answers(bodies) \cup {Response(401, Some(0)), Response(404, Some(0))}

ApiKeys == {"r", "f", "e", "Enter", "q"}
ApiWorld ==
    [login |-> ApiAnswers({0}), apps |-> ApiAnswers({0}),
     logs |-> ApiAnswers({0, MaxFetch}),
     export |-> ApiAnswers({0}),
     streams |-> {}]

NextApi ==
    \/ AutoLogin(ApiWorld)
    \/ KeyEvent(Offered(ApiKeys), ApiWorld)
    \/ NoKeyEvent
    \/ SkipStream
    \/ Exit

SpecApi == InitScreens /\ [][NextApi]_vars

(***************************************************************************)
(* SpecPaging: paging through a fetch result longer than a page.  The user *)
(* logs in, refreshes, the server returning one record or MaxPage of them, *)
(* moves down, jumps to the last record and pages up and down.             *)
(***************************************************************************)
MaxPage == 12

PagingKeys == {"r", "j", "G", "C-u", "C-d", "q"}
PagingWorld ==
    [login |-> {Ok200(0)}, apps |-> {Ok200(0)},
     logs |-> {Ok200(1), Ok200(MaxPage)},
     export |-> Unasked, streams |-> {}]

NextPaging ==
    \/ AutoLogin(PagingWorld)
    \/ KeyEvent(PagingKeys, PagingWorld)
    \/ NoKeyEvent
    \/ SkipStream
    \/ Exit

SpecPaging == InitScreens /\ [][NextPaging]_vars

(***************************************************************************)
(* SpecQuit: quitting.  The login is accepted or refused; the user presses *)
(* 'q' and Ctrl+C on every screen, opens the overlays, refreshes and tails *)
(* one stream.                                                             *)
(***************************************************************************)
QuitKeys == {"q", "C-c", "?", "f", "e", "r", "t", "Enter", "Esc"}
QuitWorld ==
    [login |-> {Ok200(0), Response(401, None)}, apps |-> {Ok200(0)},
     logs |-> {Ok200(1)},
     export |-> {Ok200(0)},
     streams |-> {1}]

NextQuit ==
    \/ AutoLogin(QuitWorld)
    \/ KeyEvent(Offered(QuitKeys), QuitWorld)
    \/ NoKeyEvent
    \/ PollStream
    \/ SkipStream
    \/ Exit
    \/ Ingestion(FALSE)

SpecQuit == InitScreens /\ [][NextQuit]_vars

(***************************************************************************)
(* SpecSequence: everything that writes the record sequence.  The user     *)
(* refreshes, applies the filter panel as it opens, toggles tail mode on   *)
(* and off, each time on a new stream, and quits; get_logs answers one     *)
(* record or fails.                                                        *)
(***************************************************************************)
SequenceKeys == {"r", "t", "f", "Enter", "q"}
SequenceWorld ==
    [login |-> {Ok200(0)}, apps |-> {Ok200(0)},
     logs |-> {Ok200(1), Response(500, None)},
     export |-> Unasked,
     streams |-> {1, 2}]

NextSequence ==
    \/ AutoLogin(SequenceWorld)
    \/ KeyEvent(Offered(SequenceKeys), SequenceWorld)
    \/ NoKeyEvent
    \/ PollStream
    \/ SkipStream
    \/ Exit
    \/ Ingestion(FALSE)

SpecSequence == InitScreens /\ [][NextSequence]_vars

(***************************************************************************)
(* SpecHighlight: the highlights of the filter panel.  The user logs in,   *)
(* opens the panel, walks the fields with Tab and moves up and down in     *)
(* each of the three lists; nothing is typed into the search field.        *)
(***************************************************************************)
HighlightKeys == {"f", "Tab", "j", "k", "Up", "Down", "q"}
HighlightWorld ==
    [login |-> {Ok200(0)}, apps |-> {Ok200(MaxApps)},
     logs |-> Unasked, export |-> Unasked, streams |-> {}]

NextHighlight ==
    \/ AutoLogin(HighlightWorld)
    \/ KeyEvent({key \in HighlightKeys : ~Typing(key)}, HighlightWorld)
    \/ NoKeyEvent
    \/ SkipStream
    \/ Exit

SpecHighlight == InitScreens /\ [][NextHighlight]_vars

(***************************************************************************)
(* SpecExport: export and refresh after a filter.  The user logs in,       *)
(* selects an application in the filter panel and applies, refreshes,      *)
(* opens the export menu, changes the format, exports or cancels.          *)
(***************************************************************************)
ExportKeys == {"f", "j", "Space", "Enter", "r", "e", "Esc", "q"}
ExportWorld ==
    [login |-> {Ok200(0)}, apps |-> {Ok200(MaxApps)},
     logs |-> {Ok200(0)},
     export |-> {Ok200(0), Response(500, None)},
     streams |-> {}]

NextExport ==
    \/ AutoLogin(ExportWorld)
    \/ KeyEvent(ExportKeys, ExportWorld)
    \/ NoKeyEvent
    \/ SkipStream
    \/ Exit

SpecExport == InitScreens /\ [][NextExport]_vars

\* the instants the clock is read at
MaxClock == 2
Instants == 0..MaxClock

Logs == app.logs_view.logs
Selected == app.logs_view.selected
Alive(s) == task[s] \in {"reading", "sending"}
Holds(s) == app.log_stream = Some(s)

\* the main loop leaves the "stream" position of this tick
TickEnds == pc = "stream" /\ pc' # "stream"

\* the records LogStream s has decoded and its receiver has not taken yet
InFlight(s) ==
    chan[s] \o (IF task[s] = "sending" THEN <<Unwrap(pending[s])>> ELSE <<>>)

\* C1: in every reachable state the cursor is "none" or an index i with
\* 0 <= i < len(logs); never a numeric index while the sequence is empty.
C1_CursorValid ==
    \/ ~IsSome(Selected)
    \/ (Unwrap(Selected) >= 0 /\ Unwrap(Selected) < Len(Logs))

\* C2: with tail mode active the per-tick receive is non-blocking: whenever
\* the loop reaches its receive, the receive can complete at once, a record
\* being available or not, so the tick goes on to the next draw and key.
C2_ReceiveNeverWaits ==
    (pc = "stream" /\ app.tail_mode /\ IsSome(app.log_stream))
        => Recv(Unwrap(app.log_stream)) # {}

\* C3: every tail insertion leaves len(logs) <= cap, and what it keeps is
\* the new record followed by the head of the old sequence: only records at
\* the tail end (the oldest) are evicted.
C3_TailInsertionCapped ==
    [][(TickEnds /\ app.tail_mode /\ IsSome(app.log_stream)
            /\ chan[Unwrap(app.log_stream)] # <<>>)
        => LET all == <<Head(chan[Unwrap(app.log_stream)])>> \o Logs
           IN  /\ Len(app'.logs_view.logs) <= app.max_logs
               /\ Len(app'.logs_view.logs) = Min(Len(all), app.max_logs)
               /\ \A i \in 1..Len(app'.logs_view.logs) :
                     app'.logs_view.logs[i] = all[i]]_vars

\* a full view took one more tail record and evicted its oldest
C3_Witness ==
    /\ app.max_logs = 2
    /\ Logs = <<TailLog(1, 3), TailLog(1, 2)>>

\* C4: in every reachable state the record sequence holds at most the
\* configured maximum, also directly after set_logs replaced it.
C4_Bounded == Len(Logs) <= app.max_logs

\* C5: tail records reach the view in the order the server emitted them,
\* none reordered, repeated or lost on the way: two neighbours in the view
\* from the same stream are consecutive, the newer nearer the head; the
\* buffer holds consecutive records, oldest first; and the next record to
\* be received is the one after the newest in the view.
C5_FifoOrder ==
    /\ \A i \in 1..(Len(Logs) - 1) :
          (Logs[i].sess # 0 /\ Logs[i].sess = Logs[i + 1].sess)
              => Logs[i].seq = Logs[i + 1].seq + 1
    /\ \A s \in Sessions :
          /\ \A i \in 1..(Len(chan[s]) - 1) :
                chan[s][i + 1] = TailLog(s, chan[s][i].seq + 1)
          /\ (Holds(s) /\ chan[s] # <<>> /\ Logs # <<>> /\ Logs[1].sess = s)
                => Head(chan[s]) = TailLog(s, Logs[1].seq + 1)

\* A, B, C went through the channel: the view reads C, B, A
C5_Witness == Logs = <<TailLog(1, 3), TailLog(1, 2), TailLog(1, 1)>>

\* C6 as claimed: no two ingestion tasks are alive at the same time.
C6_OneTaskAlive == Cardinality({s \in Sessions : Alive(s)}) <= 1

\* C6: at most one TailSession is owned by the application at a time: at
\* most one channel has its receiver open, only while tail mode is on, and
\* it is the channel of the LogStream the application holds.
C6_OneOwnedSession ==
    /\ Cardinality({s \in Sessions : rxOpen[s]}) <= 1
    /\ \A s \in Sessions : rxOpen[s] => (app.tail_mode /\ Holds(s))

\* tail was toggled off and on again while the first task was still alive
C6_Witness ==
    \E s, t \in Sessions :
        /\ s # t
        /\ Alive(s) /\ ~rxOpen[s]
        /\ Alive(t) /\ rxOpen[t] /\ Holds(t)

\* C7 as claimed: once the receiver is dropped, the ingestion task of that
\* session eventually exits, whatever the server stream does afterwards.
C7_TaskEventuallyExits ==
    \A s \in Sessions : (Alive(s) /\ ~rxOpen[s]) ~> (task[s] = "exited")

\* C7: once the receiver is dropped, the ingestion task exits when it next
\* attempts a send: a task holding a decoded record for a dropped receiver
\* eventually exits.
C7_ExitsOnNextSend ==
    \A s \in Sessions :
        (task[s] = "sending" /\ ~rxOpen[s]) ~> (task[s] = "exited")

\* tail mode was disabled while the task was about to send
C7_Witness == \E s \in Sessions : task[s] = "sending" /\ ~rxOpen[s]

\* C8: when the ingestion task has ended and the main loop's receive finds
\* the channel closed, the TailSession is destroyed: the application holds
\* no tail stream and tail mode is off.
C8_DestroyedOnStreamEnd ==
    [][(TickEnds /\ app.tail_mode /\ IsSome(app.log_stream)
            /\ task[Unwrap(app.log_stream)] = "exited"
            /\ chan[Unwrap(app.log_stream)] = <<>>)
        => (~IsSome(app'.log_stream) /\ ~app'.tail_mode)]_vars

\* the task of LogStream s takes an event off the server stream: a step of
\* the task, main staying where it is
TakesEvent(s) ==
    /\ task[s] = "reading"
    /\ pc' = pc
    /\ <<task[s], decoded[s], event[s]>>' # <<task[s], decoded[s], event[s]>>

\* C9: a malformed event and a comment or connected frame are skipped: the
\* task keeps reading, forwards nothing and stays alive; a well-formed
\* record is decoded and, the receiver being open, put in the channel; with
\* the receiver open the task, while the program runs, ends only on a stream
\* error or end.
C9_NoiseSkipped ==
    [][\A s \in Sessions :
        /\ TakesEvent(s) =>
              /\ event'[s] \in {"malformed", "comment", "connected"}
                    => /\ task'[s] = "reading"
                       /\ chan'[s] = chan[s]
                       /\ pending'[s] = None
                       /\ decoded'[s] = decoded[s]
              /\ event'[s] = "record"
                    => /\ task'[s] = "sending"
                       /\ pending'[s] = Some(TailLog(s, decoded[s] + 1))
              /\ task'[s] = "exited" <=> event'[s] \in {"error", "end"}
        /\ (task[s] = "sending" /\ rxOpen[s] /\ pc' = pc /\ task'[s] # "sending")
              => /\ task'[s] = "reading"
                 /\ chan'[s] = Append(chan[s], Unwrap(pending[s]))]_vars

\* a record was forwarded, then a malformed event skipped, the task reading on
C9_Witness ==
    \E s \in Sessions :
        /\ event[s] = "malformed"
        /\ task[s] = "reading"
        /\ rxOpen[s]
        /\ chan[s] # <<>>

\* C10: the channel never holds more than its capacity, and no decoded
\* record is dropped or overwritten while the receiver is open: the records
\* not yet received are all there, in order, the one a blocked send holds
\* included.
C10_BoundedNoDrop ==
    \A s \in Sessions :
        /\ Len(chan[s]) <= ChannelCapacity
        /\ rxOpen[s] =>
              \A i \in 1..Len(InFlight(s)) :
                  InFlight(s)[i] = TailLog(s, decoded[s] - Len(InFlight(s)) + i)

\* the buffer is full and the task waits on send with one more record
C10_Witness ==
    \E s \in Sessions :
        /\ rxOpen[s]
        /\ Len(chan[s]) = ChannelCapacity
        /\ task[s] = "sending"

\* the number of records of LogStream s its receiver has taken
Delivered(s) == decoded[s] - Len(InFlight(s))

\* the n-th record of LogStream s is in the view
InView(s, n) == \E i \in 1..Len(Logs) : Logs[i] = TailLog(s, n)

\* C11: while tail mode stays on and the application runs, every record the
\* ingestion task of the held stream has decoded is eventually received by
\* the main loop, no key being needed, and the tick that receives a record
\* inserts it at the head of the view (with a cap of 0 it is truncated at
\* once).
C11_DecodedEventuallyInserted ==
    /\ \A s \in Sessions : \A n \in 1..MaxRecords :
          (Holds(s) /\ app.tail_mode /\ decoded[s] >= n)
              ~> \/ Delivered(s) >= n
                 \/ ~Holds(s)
                 \/ pc \in {"done", "exited"}
    /\ [][\A s \in Sessions :
            (TickEnds /\ Holds(s) /\ app.tail_mode /\ chan[s] # <<>>)
                => /\ chan'[s] = Tail(chan[s])
                   /\ app.max_logs > 0
                        => /\ app'.logs_view.logs # <<>>
                           /\ app'.logs_view.logs[1] = Head(chan[s])]_vars

\* every record the stream yields was decoded, received and inserted
C11_Witness ==
    \E s \in Sessions :
        /\ Holds(s) /\ app.tail_mode
        /\ decoded[s] = MaxRecords
        /\ Delivered(s) = MaxRecords
        /\ InView(s, MaxRecords)

\* login and the get_apps that follows it both succeed
LoginSucceeds(r) == ApiClient_login(r.login).ok /\ get_apps(r.apps).ok

\* run_app handles Enter on the login screen, the calls answering r
Submits(r) ==
    /\ pc = "event" /\ pc' = "stream"
    /\ app.state = "Login"
    /\ app' = handle_key(app, "Enter", r)

\* try_auto_login makes its attempt, the calls answering r
AutoSubmits(r) ==
    /\ pc = "start" /\ pc' = "event"
    /\ app.login_state.username # 0 /\ app.login_state.password # 0
    /\ app' = try_auto_login(app, r)

\* C12: a login submit that fails (login refused, not sent or not decoded,
\* or get_apps failing after it) leaves the state at Login, sets the login
\* error message, leaves is_submitting false and the applications unchanged.
C12_FailedSubmit ==
    [][\A r \in Outside(LoginWorld, "Enter") :
        (Submits(r) /\ ~LoginSucceeds(r))
            => /\ app'.state = "Login"
               /\ IsSome(app'.login_state.error_message)
               /\ ~app'.login_state.is_submitting
               /\ app'.apps = app.apps]_vars

\* Enter was handled and the server refused the credentials
C12_Witness ==
    /\ pc = "stream"
    /\ app.state = "Login"
    /\ app.login_state.error_message
          = Some(<<"Login failed: {}", "Invalid credentials">>)
    /\ ~app.login_state.is_submitting
    /\ app.apps = <<>>

\* C13: a login that succeeds, get_apps succeeding after it, moves the state
\* to Main with the applications equal to the list returned and no login
\* error message, whatever error an earlier attempt had set; the same on the
\* automatic attempt.
C13_SuccessfulLogin ==
    [][/\ \A r \in Outside(LoginWorld, "Enter") :
            (Submits(r) /\ LoginSucceeds(r))
                => /\ app'.state = "Main"
                   /\ app'.apps = get_apps(r.apps).val
                   /\ app'.login_state.error_message = None
       /\ \A login \in LoginWorld.login, apps \in LoginWorld.apps :
            LET r == [login |-> login, apps |-> apps]
            IN  (AutoSubmits(r) /\ LoginSucceeds(r))
                    => /\ app'.state = "Main"
                       /\ app'.apps = get_apps(apps).val
                       /\ app'.login_state.error_message = None]_vars

\* Enter was handled, the server accepted and returned the applications
C13_Witness ==
    /\ pc = "stream"
    /\ app.state = "Main"
    /\ app.apps = [i \in 1..MaxApps |-> i]
    /\ app.login_state.error_message = None
    /\ app.status_message = Some(<<"Logged in successfully">>)

\* C14: on the login screen a request is issued only by Enter with both
\* fields non-empty: with a field empty, what handling Enter leaves does not
\* depend on what the server would answer.
C14_NoRequestOnEmptyField ==
    (/\ pc = "event"
     /\ app.state = "Login"
     /\ (app.login_state.username = 0 \/ app.login_state.password = 0))
        => \A r1, r2 \in Outside(LoginWorld, "Enter") :
              handle_key(app, "Enter", r1) = handle_key(app, "Enter", r2)

\* C15: with username and password both pre-supplied one login attempt is
\* made before the first input event is handled; with either missing none is
\* made; run_app never comes back to the attempt, and no step other than the
\* handling of a key changes the login state, the screen or the applications
\* afterwards.
C15_AutoLoginOnce ==
    [][/\ (pc = "start"
             /\ app.login_state.username # 0 /\ app.login_state.password # 0)
          => /\ pc' = "event"
             /\ \E login \in LoginWorld.login, apps \in LoginWorld.apps :
                   app' = LoginAttempt(
                            [app EXCEPT !.login_state.is_submitting = TRUE],
                            [login |-> login, apps |-> apps])
             /\ app'.state = "Main" \/ IsSome(app'.login_state.error_message)
       /\ (pc = "start"
             /\ (app.login_state.username = 0 \/ app.login_state.password = 0))
          => app' = app
       /\ pc' = "start" => pc = "start"
       /\ pc \notin {"start", "event"}
          => /\ app'.login_state = app.login_state
             /\ app'.state = app.state
             /\ app'.apps = app.apps]_vars

\* the automatic attempt was refused and the loop waits for the first key
C15_Witness ==
    /\ pc = "event"
    /\ app.state = "Login"
    /\ app.login_state.username = 1 /\ app.login_state.password = 1
    /\ app.login_state.active_field = "Username"
    /\ IsSome(app.login_state.error_message)
    /\ ~app.login_state.is_submitting

\* the screens drawn over Main
Overlays == {"FilterPanel", "LogDetail", "Help", "ExportMenu"}

\* C16: the state starts at Login, and every change of state is Login to
\* Main (login and get_apps having both succeeded, the applications being
\* the list returned), Main to an overlay, or an overlay to Main: never one
\* overlay to another, never back to Login, also after a session-expired
\* answer.
C16_Transitions ==
    /\ app.state = "Login"
    /\ [][app'.state # app.state
            => \/ /\ app.state = "Login" /\ app'.state = "Main"
                  /\ \E login \in ScreenWorld.login, apps \in ScreenWorld.apps :
                        /\ LoginSucceeds([login |-> login, apps |-> apps])
                        /\ app'.apps = get_apps(apps).val
               \/ app.state = "Main" /\ app'.state \in Overlays
               \/ app.state \in Overlays /\ app'.state = "Main"]_vars

\* a refresh was answered 401 and the screen is still Main
C16_Witness ==
    /\ app.state = "Main"
    /\ app.status_message
          = Some(<<"Failed to refresh logs: {}",
                   "Session expired. Please login again.">>)

\* C17: switching screens never changes tail mode: tail_mode and the held
\* stream change only when 't' is handled in Main, no change of screen
\* changes them, and a tick with tail mode on inserts the record it receives
\* whichever screen is displayed.
C17_TailIndependentOfScreen ==
    [][/\ (app'.tail_mode # app.tail_mode \/ app'.log_stream # app.log_stream)
          => /\ pc = "event"
             /\ app.state = "Main"
             /\ \E r \in Outside(TailScreenWorld, "t") :
                   app' = handle_key(app, "t", r)
       /\ app'.state # app.state
          => /\ app'.tail_mode = app.tail_mode
             /\ app'.log_stream = app.log_stream
       /\ \A s \in Sessions :
            (TickEnds /\ app.tail_mode /\ Holds(s) /\ chan[s] # <<>>)
                => /\ app'.logs_view.logs
                        = Truncate(InsertFront(Logs, Head(chan[s])), app.max_logs)
                   /\ app'.state = app.state]_vars

\* the help screen was opened on the tick after tail mode was enabled, and
\* that tick inserted the second record
C17_Witness ==
    /\ pc = "event"
    /\ app.state = "Help"
    /\ app.tail_mode /\ Holds(1) /\ Alive(1)
    /\ Logs = <<TailLog(1, 2), TailLog(1, 1)>>

\* run_app handles `key`, the calls it issues answering r
Handles(key, r) ==
    /\ pc = "event" /\ pc' = "stream"
    /\ app' = handle_key(app, key, r)

\* handling `key` issues a remote call (or the write of the export file)
\* that fails under r
CallFails(key, r) ==
    \/ app.state = "Login" /\ key = "Enter" /\ ~LoginSucceeds(r)
    \/ app.state = "Main" /\ key = "r" /\ ~get_logs(r.logs).ok
    \/ app.state = "FilterPanel" /\ key = "Enter" /\ ~get_logs(r.logs).ok
    \/ app.state = "ExportMenu" /\ key = "Enter"
          /\ ~(ApiClient_export_logs(r.export).ok /\ r.write)

\* a message is shown: the login error on the login screen, the status
\* message elsewhere
MessageSet(a) ==
    IF a.state = "Login" THEN IsSome(a.login_state.error_message)
    ELSE IsSome(a.status_message)

\* C18: when a remote call fails, the screen from which it was issued stays
\* the active state, with a message set: FilterPanel after a failed apply,
\* ExportMenu after a failed export, Login after a failed login, Main after
\* a failed refresh.
C18_ScreenStaysOnFailure ==
    [][\A key \in {"Enter", "r"} : \A r \in Outside(ScreenWorld, key) :
        (Handles(key, r) /\ CallFails(key, r))
            => /\ app'.state = app.state
               /\ MessageSet(app')]_vars

\* C19: a failing remote call leaves the quit flag unset, and the App as it
\* was but for the status message and the login error message: records,
\* cursor, applications and everything else unchanged.
C19_OnlyMessageChanges ==
    [][\A key \in {"Enter", "r"} : \A r \in Outside(ScreenWorld, key) :
        (Handles(key, r) /\ CallFails(key, r))
            => /\ ~app'.should_quit
               /\ app' = [app EXCEPT
                            !.status_message = app'.status_message,
                            !.login_state.error_message =
                                app'.login_state.error_message]]_vars

\* C19, the part of it that holds: after a failing remote call the loop goes
\* on, the quit flag is unset, records, cursor and applications are
\* unchanged and a message is set.
C19_FailureLeavesData ==
    [][\A key \in {"Enter", "r"} : \A r \in Outside(ScreenWorld, key) :
        (Handles(key, r) /\ CallFails(key, r))
            => /\ ~app'.should_quit
               /\ AfterTick(app') = "event"
               /\ app'.logs_view = app.logs_view
               /\ app'.apps = app.apps
               /\ MessageSet(app')]_vars

\* the cursor designates a record of the sequence
CursorOnRecord == IsSome(Selected) /\ Unwrap(Selected) < Len(Logs)

\* C20: Enter in Main moves to LogDetail if and only if the cursor designates
\* an existing record of the sequence; with an empty sequence, no cursor or
\* a cursor out of range the state stays Main; and nothing else takes Main
\* to LogDetail.
C20_EnterOpensDetail ==
    [][/\ (/\ pc = "event" /\ pc' = "stream"
           /\ app.state = "Main"
           /\ \E r \in Outside(ViewWorld, "Enter") :
                 app' = handle_key(app, "Enter", r))
          => app'.state = IF CursorOnRecord THEN "LogDetail" ELSE "Main"
       /\ (app.state = "Main" /\ app'.state = "LogDetail")
          => CursorOnRecord]_vars

\* the detail of the second of two records is open
C20_Witness ==
    /\ app.state = "LogDetail"
    /\ Len(Logs) = 2
    /\ Selected = Some(1)


\* the levels of a level list
LevelSet(levels) == {levels[i] : i \in 1..Len(levels)}

\* the levels of a joined level list: the entries at the odd positions
JoinedLevels(v) == {v[i] : i \in {j \in 1..Len(v) : j % 2 = 1}}

\* the level the level list of the open panel highlights
Highlighted ==
    VecGet(LogLevel_all, Unwrap(Unwrap(app.filter_state).level_list_state))

\* C21: the level set a filter compiles to is the set of levels toggled on an
\* odd number of times: it starts empty, a toggle of level L flips the
\* membership of L and of nothing else (also the toggle the applying Enter
\* makes before it compiles), no level is held twice, and the query carries
\* the "levels" parameter, once and with exactly these levels, if and only
\* if the set is not empty.
C21_LevelToggles ==
    /\ [][/\ (app.state = "Main" /\ app'.state = "FilterPanel")
             => Unwrap(app'.filter_state).selected_levels = <<>>
          /\ \A r \in Outside(LevelWorld, "Space") :
               (Handles("Space", r) /\ OnField("Levels"))
                  => LET old == LevelSet(Unwrap(app.filter_state).selected_levels)
                         new == LevelSet(Unwrap(app'.filter_state).selected_levels)
                         L == Unwrap(Highlighted)
                     IN  new = (old \ {L}) \cup ({L} \ old)
          /\ \A r \in Outside(LevelWorld, "Enter") : \A now \in Instants :
               (Handles("Enter", r) /\ OnField("Levels"))
                  => LET old == LevelSet(Unwrap(app.filter_state).selected_levels)
                         sent == Unwrap(handle_filter_key_filters(app, "Enter",
                                                                  now, now))
                         L == Unwrap(Highlighted)
                     IN  LevelSet(sent.levels) = (old \ {L}) \cup ({L} \ old)]_vars
    /\ [](IsSome(app.filter_state)
            => LET f == Unwrap(app.filter_state)
                   filters == to_log_filters(f, 0, 0)
                   params == get_logs_params(filters)
               IN  /\ Cardinality(LevelSet(f.selected_levels))
                        = Len(f.selected_levels)
                   /\ LevelSet(filters.levels) = LevelSet(f.selected_levels)
                   /\ "levels" \in ParamKeys(params)
                        <=> LevelSet(f.selected_levels) # {}
                   /\ "level" \notin ParamKeys(params)
                   /\ f.selected_levels # <<>>
                        => /\ ParamCount(params, "levels") = 1
                           /\ \A v \in ParamValues(params, "levels") :
                                 /\ v = Join(f.selected_levels, ",")
                                 /\ JoinedLevels(v) = LevelSet(f.selected_levels))

\* DEBUG and then ERROR were toggled on, the cursor still on ERROR
C21_Witness ==
    /\ OnField("Levels")
    /\ Unwrap(app.filter_state).selected_levels = <<"DEBUG", "ERROR">>
    /\ Unwrap(app.filter_state).level_list_state = Some(3)


\* the width of a relative preset, in seconds
PresetWidth(preset) ==
    CASE preset = "Last1Hour" -> 3600
      [] preset = "Last24Hours" -> 24 * 3600
      [] preset = "Last7Days" -> 7 * 24 * 3600

RelativePresets == {"Last1Hour", "Last24Hours", "Last7Days"}

\* C22: a relative preset of width D compiles to both bounds present, the
\* start D before the first clock reading and the end at the second: for a
\* fixed now end - start = D, and start < end whenever the clock does not
\* run backwards between the readings; All compiles to both bounds absent.
\* The filter state holds the preset only: the bounds follow the instant of
\* compilation, the same state compiling to other bounds at another instant,
\* and the Enter that applies from the time list compiles the preset it has
\* just selected at the instant of that Enter.
C22_TimeRangeCompiled ==
    /\ [](IsSome(app.filter_state)
            => LET f == Unwrap(app.filter_state)
               IN  \A now1, now2 \in Instants :
                     LET filters == to_log_filters(f, now1, now2)
                     IN  /\ (f.time_range \in RelativePresets /\ now1 <= now2)
                            => /\ IsSome(filters.start_time)
                               /\ IsSome(filters.end_time)
                               /\ Unwrap(filters.start_time)
                                    = now1 - PresetWidth(f.time_range)
                               /\ Unwrap(filters.end_time) = now2
                               /\ Unwrap(filters.start_time)
                                    < Unwrap(filters.end_time)
                               /\ now1 = now2
                                    => Unwrap(filters.end_time)
                                         - Unwrap(filters.start_time)
                                       = PresetWidth(f.time_range)
                               /\ now1 # now2
                                    => to_log_filters(f, now1, now1)
                                         # to_log_filters(f, now2, now2)
                         /\ f.time_range \notin RelativePresets
                            => /\ f.time_range = "All"
                               /\ filters.start_time = None
                               /\ filters.end_time = None)
    /\ [][\A r \in Outside(LevelWorld, "Enter") : \A now \in Instants :
            (Handles("Enter", r) /\ OnField("TimeRange"))
                => LET f == Unwrap(app.filter_state)
                       preset == Unwrap(VecGet(TimeRangePreset_all,
                                               Unwrap(f.time_list_state)))
                       sent == Unwrap(handle_filter_key_filters(app, "Enter",
                                                                now, now))
                   IN  IF preset = "All"
                       THEN sent.start_time = None /\ sent.end_time = None
                       ELSE /\ sent.start_time = Some(now - PresetWidth(preset))
                            /\ sent.end_time = Some(now)]_vars

\* the user selected the 7-day preset and moved on to the search field
C22_Witness ==
    /\ OnField("Search")
    /\ Unwrap(app.filter_state).time_range = "Last7Days"


\* C23: for every criteria the filter panel composes (and the default ones)
\* and both formats, export_logs sends the format under "format", the
\* application, if one is selected, under "app_id", and the selected levels,
\* comma-joined, once under the singular key "level" and never under
\* "levels"; get_logs sends the same joined list once under the plural key
\* "levels" and never under "level"; both omit the key when no level is
\* selected.
C23_LevelKeyOfExport ==
    LET Sends(filters) ==
            \A format \in {0, 1} :
                LET export == export_logs_params(format, filters)
                    query == get_logs_params(filters)
                IN  /\ ParamCount(export, "format") = 1
                    /\ ParamValues(export, "format")
                          = {IF format = 0 THEN "json" ELSE "csv"}
                    /\ "levels" \notin ParamKeys(export)
                    /\ "level" \notin ParamKeys(query)
                    /\ "level" \in ParamKeys(export) <=> filters.levels # <<>>
                    /\ "levels" \in ParamKeys(query) <=> filters.levels # <<>>
                    /\ filters.levels # <<>>
                          => /\ ParamCount(export, "level") = 1
                             /\ ParamCount(query, "levels") = 1
                             /\ ParamValues(export, "level")
                                  = ParamValues(query, "levels")
                             /\ \A v \in ParamValues(export, "level") :
                                  /\ JoinedLevels(v) = LevelSet(filters.levels)
                                  /\ Len(v) = 2 * Len(filters.levels) - 1
                    /\ "app_id" \in ParamKeys(export) <=> IsSome(filters.app_id)
                    /\ IsSome(filters.app_id)
                          => ParamValues(export, "app_id")
                                = {<<"dec", Unwrap(filters.app_id)>>}
    IN  /\ Sends(LogFilters_default)
        /\ IsSome(app.filter_state)
              => Sends(to_log_filters(Unwrap(app.filter_state), 0, 0))

\* the criteria select the application and the levels ERROR and WARN
C23_Witness ==
    /\ OnField("Search")
    /\ Unwrap(app.filter_state).selected_app_id = Some(1)
    /\ Unwrap(app.filter_state).selected_levels = <<"ERROR", "WARN">>


\* the error texts of the 401 arms
UnauthorizedTexts == {"Invalid credentials", "Session expired. Please login again."}

Is401(resp) == resp.sent /\ resp.status = StatusUnauthorized

\* the operation Op maps a 401 to its unauthorized error and to nothing else,
\* and succeeds exactly on a success status with a decodable body
Classifies(Op(_), answers) ==
    \A resp \in answers :
        /\ Op(resp).ok <=> (resp.sent /\ IsSuccess(resp.status) /\ IsSome(resp.body))
        /\ (~Op(resp).ok /\ Op(resp).err \in UnauthorizedTexts) <=> Is401(resp)
        /\ \A other \in answers :
              (Is401(resp) /\ ~Is401(other)) => Op(resp) # Op(other)

\* the message the screen of `a` shows
Shown(a) ==
    IF a.state = "Login" THEN a.login_state.error_message ELSE a.status_message

\* the answer that decides what handling `key` shows
Decisive(key, r) ==
    IF AsksLogin(key)
    THEN (IF ApiClient_login(r.login).ok THEN r.apps ELSE r.login)
    ELSE IF AsksLogs(key) THEN r.logs ELSE r.export

\* C24: login, get_apps, get_logs, get_logs_count and export_logs each turn
\* a 401 into an unauthorized error that they return for no other answer
\* (another status, a request not sent, a body not decoded), and succeed
\* only on a success status with a decodable body; and the message a key
\* handler shows after its call names the unauthorized error exactly when
\* the deciding answer was a 401.
C24_UnauthorizedDistinct ==
    /\ Classifies(ApiClient_login, ApiWorld.login)
    /\ Classifies(get_apps, ApiWorld.apps)
    /\ Classifies(get_logs, ApiWorld.logs)
    /\ Classifies(get_logs_count, ApiWorld.logs)
    /\ Classifies(ApiClient_export_logs, ApiWorld.export)
    /\ [][\A key \in {"Enter", "r"} : \A r \in Outside(ApiWorld, key) :
            (Handles(key, r) /\ (AsksLogin(key) \/ AsksLogs(key) \/ AsksExport(key)))
                => ((/\ IsSome(Shown(app'))
                     /\ Len(Unwrap(Shown(app'))) = 2
                     /\ Unwrap(Shown(app'))[2] \in UnauthorizedTexts)
                        <=> Is401(Decisive(key, r)))]_vars

\* an export was answered 401
C24_Witness ==
    /\ app.state = "Main"
    /\ app.status_message
          = Some(<<"Failed to export logs: {}",
                   "Session expired. Please login again.">>)


\* run_app handles `key` on the main screen
HandlesInMain(key) ==
    /\ app.state = "Main"
    /\ \E r \in Outside(ViewWorld, key) : Handles(key, r)

\* C25: on a non-empty sequence with the cursor on a record, next followed
\* by previous and previous followed by next give back the view unchanged;
\* previous from index 0 yields len - 1 and next from len - 1 yields 0; and
\* so do the keys: previous undoes the step 'j' made, next the step 'k' made.
C25_NextPreviousInverse ==
    /\ [](CursorOnRecord
            => LET v == app.logs_view
               IN  /\ previous(next(v)) = v
                   /\ next(previous(v)) = v
                   /\ Selected = Some(0)
                        => previous(v).selected = Some(Len(Logs) - 1)
                   /\ Selected = Some(Len(Logs) - 1)
                        => next(v).selected = Some(0))
    /\ [][/\ (HandlesInMain("j") /\ CursorOnRecord)
             => /\ previous(app'.logs_view) = app.logs_view
                /\ app'.logs_view.selected
                     = Some((Unwrap(Selected) + 1) % Len(Logs))
          /\ (HandlesInMain("k") /\ CursorOnRecord)
             => /\ next(app'.logs_view) = app.logs_view
                /\ app'.logs_view.selected
                     = Some((Unwrap(Selected) + Len(Logs) - 1) % Len(Logs))]_vars

\* 'k' on the first of three records wrapped to the last
C25_Witness ==
    /\ pc = "stream"
    /\ app.state = "Main"
    /\ ~app.tail_mode
    /\ Len(Logs) = 3
    /\ Selected = Some(2)


\* run_app handles `key` on the main screen of SpecPaging
Pages(key) ==
    /\ app.state = "Main"
    /\ \E r \in Outside(PagingWorld, key) : Handles(key, r)

\* C26: page_up and page_down, handled in any reachable state with records
\* to show, leave the cursor in [0, len - 1]; they never wrap: page_down does
\* not move the cursor back nor page_up forward; and page_down repeated
\* reaches len - 1 and stays there.
C26_PagingInRange ==
    [][\A key \in {"C-u", "C-d"} :
        (Pages(key) /\ Logs # <<>>)
            => /\ IsSome(app'.logs_view.selected)
               /\ Unwrap(app'.logs_view.selected) >= 0
               /\ Unwrap(app'.logs_view.selected) <= Len(Logs) - 1
               /\ (key = "C-d" /\ CursorOnRecord)
                    => Unwrap(app'.logs_view.selected) >= Unwrap(Selected)
               /\ key = "C-u"
                    => Unwrap(app'.logs_view.selected) <= Unwrap(Selected)
               /\ (key = "C-d" /\ Len(Logs) - 1 <= 2 * PageStride)
                    => /\ page_down(app'.logs_view).selected = Some(Len(Logs) - 1)
                       /\ page_down(page_down(app'.logs_view))
                            = page_down(app'.logs_view)]_vars

\* C26, the part of it that holds: page_down leaves the cursor in
\* [0, len - 1] from every reachable state with records to show, a stale
\* cursor included, reaches len - 1 when repeated and stays there; page_up
\* does so from a cursor that is on a record.
C26_PageDownClamps ==
    [][/\ (Pages("C-d") /\ Logs # <<>>)
          => /\ Unwrap(app'.logs_view.selected) <= Len(Logs) - 1
             /\ page_down(page_down(app'.logs_view)).selected
                  = Some(Len(Logs) - 1)
             /\ page_down(page_down(page_down(app'.logs_view)))
                  = page_down(page_down(app'.logs_view))
       /\ (Pages("C-u") /\ CursorOnRecord)
          => /\ Unwrap(app'.logs_view.selected) <= Len(Logs) - 1
             /\ Unwrap(app'.logs_view.selected)
                  = SaturatingSub(Unwrap(Selected), PageStride)]_vars


\* the keys of handle_main_key that move the cursor
CursorKeys == {"j", "k", "g", "G", "C-u", "C-d"}

\* C27: on an empty sequence next, previous, select_first, select_last,
\* page_up and page_down each leave the cursor and the sequence as they are,
\* whatever the cursor holds, and so does the handling of each of their keys
\* on the main screen.
C27_NoOpOnEmpty ==
    /\ [](Logs = <<>>
            => LET v == app.logs_view
               IN  /\ next(v) = v
                   /\ previous(v) = v
                   /\ select_first(v) = v
                   /\ select_last(v) = v
                   /\ page_up(v) = v
                   /\ page_down(v) = v)
    /\ [][\A key \in CursorKeys :
            (HandlesInMain(key) /\ Logs = <<>>)
                => app'.logs_view = app.logs_view]_vars

\* the sequence was emptied by a refresh while the cursor was on index 2,
\* and a key was handled
C27_Witness ==
    /\ pc = "stream"
    /\ app.state = "Main"
    /\ app.status_message = Some(<<"Logs refreshed">>)
    /\ Logs = <<>>
    /\ Selected = Some(2)


\* run_app handles `key` on the screen `state`
HandlesOn(state, key) ==
    /\ app.state = state
    /\ \E r \in Outside(QuitWorld, key) : Handles(key, r)

\* C28: should_quit becomes true only when 'q' is handled in Main or Ctrl+C
\* in Login, and that step changes nothing else, the screen included; once
\* true it is never false again; no key is handled after it was set, the
\* loop leaving at the quit test that ends the tick; 'q' in LogDetail and in
\* ExportMenu only returns to Main, and 'q' and Ctrl+C on every other screen
\* leave the flag unset.
C28_QuitFlag ==
    /\ [](app.should_quit => pc \in {"stream", "done", "exited"})
    /\ [][/\ (app'.should_quit /\ ~app.should_quit)
             => /\ HandlesOn("Main", "q") \/ HandlesOn("Login", "C-c")
                /\ app' = [app EXCEPT !.should_quit = TRUE]
          /\ app.should_quit => app'.should_quit
          /\ HandlesOn("Main", "q") => app'.should_quit
          /\ HandlesOn("Login", "C-c") => app'.should_quit
          /\ (TickEnds /\ app'.should_quit) => pc' = "done"
          /\ (TickEnds /\ ~app'.should_quit) => pc' = "event"
          /\ \A state \in {"LogDetail", "ExportMenu"} :
                HandlesOn(state, "q")
                    => app' = [app EXCEPT !.state = "Main"]
          /\ \A state \in {"FilterPanel", "Help", "LogDetail", "ExportMenu"} :
                \A key \in {"q", "C-c"} :
                    HandlesOn(state, key) => ~app'.should_quit
          /\ HandlesOn("Main", "C-c") => app' = app]_vars

\* 'q' was handled in Main while a stream was tailed, and the loop has left
C28_Witness ==
    /\ pc = "done"
    /\ app.should_quit
    /\ app.state = "Main"
    /\ app.tail_mode


\* the filter panel is open on one of the three list fields
OnListField == OnField("App") \/ OnField("Levels") \/ OnField("TimeRange")

\* C29: the filter is committed (criteria compiled, get_logs called, state
\* Main) only by Enter from the Search field: Enter or Space handled while
\* the App, Levels or TimeRange field is active only toggles or selects the
\* highlighted entry, the state staying FilterPanel and no call being made;
\* the panel is left for Main only by that Enter or by Esc.
C29_CommitOnlyFromSearch ==
    [][/\ \A key \in {"Enter", "Space"} : \A r \in Outside(FilterWorld, key) :
            (Handles(key, r) /\ OnListField)
                => /\ app'.state = "FilterPanel"
                   /\ app' = [app EXCEPT !.filter_state =
                                Some(FilterState_handle_key(
                                        Unwrap(app.filter_state), key).fs)]
       /\ (app.state = "FilterPanel" /\ app'.state = "Main")
            => \/ \E r \in Outside(FilterWorld, "Esc") : Handles("Esc", r)
               \/ /\ OnField("Search")
                  /\ \E r \in Outside(FilterWorld, "Enter") : Handles("Enter", r)]_vars

\* C29, the part of it that holds: Space handled on a list field only
\* toggles or selects the highlighted entry, the state staying FilterPanel,
\* and Enter from the Search field commits: the panel is closed, the state
\* is Main and the view holds what get_logs returned, or the status message
\* its failure.
C29_SpaceOnlyToggles ==
    [][/\ \A r \in Outside(FilterWorld, "Space") :
            (Handles("Space", r) /\ OnListField)
                => /\ app'.state = "FilterPanel"
                   /\ app' = [app EXCEPT !.filter_state =
                                Some(FilterState_handle_key(
                                        Unwrap(app.filter_state), "Space").fs)]
       /\ \A r \in Outside(FilterWorld, "Enter") :
            (Handles("Enter", r) /\ OnField("Search"))
                => /\ app'.state = "Main"
                   /\ app'.filter_state = None
                   /\ IF get_logs(r.logs).ok
                      THEN app'.logs_view.logs = get_logs(r.logs).val
                      ELSE /\ app'.logs_view = app.logs_view
                           /\ IsSome(app'.status_message)]_vars


\* C30: set_logs replaces the sequence by the one it is given, whatever was
\* there; it leaves the cursor exactly as it was, whatever the new length,
\* but for a cursor that is none, which a non-empty sequence sets to 0 and
\* an empty one leaves none; and a refresh that succeeds leaves the view
\* set_logs gives for the records fetched: those records, the cursor
\* untouched.
C30_SetLogsKeepsCursor ==
    /\ [](\A n \in 0..MaxFetch :
            LET v == app.logs_view
                none == [v EXCEPT !.selected = None]
            IN  /\ set_logs(v, FetchedLogs(n)).logs = FetchedLogs(n)
                /\ IsSome(v.selected)
                     => set_logs(v, FetchedLogs(n)).selected = v.selected
                /\ set_logs(none, FetchedLogs(n)).logs = FetchedLogs(n)
                /\ set_logs(none, FetchedLogs(n)).selected
                     = IF n > 0 THEN Some(0) ELSE None)
    /\ [][\A r \in Outside(ViewWorld, "r") :
            (Handles("r", r) /\ app.state = "Main" /\ get_logs(r.logs).ok)
                => /\ app'.logs_view.logs = get_logs(r.logs).val
                   /\ app'.logs_view.selected = Selected]_vars

\* a refresh returned one record while the cursor was on index 2
C30_Witness ==
    /\ pc = "stream"
    /\ app.state = "Main"
    /\ app.status_message = Some(<<"Logs refreshed">>)
    /\ Logs = FetchedLogs(1)
    /\ Selected = Some(2)


\* the tick receives a record from the stream the application holds
TailInserts(s) ==
    /\ TickEnds
    /\ app.tail_mode
    /\ Holds(s)
    /\ chan[s] # <<>>

\* C31: a tail insertion puts the record received at index 0, keeps the old
\* records behind it in their order up to the cap, and leaves the cursor
\* index as it was: a cursor at index i >= 1 within the new sequence now
\* designates the record that was at index i - 1, a cursor at 0 the new
\* record.
C31_InsertionKeepsCursorIndex ==
    [][\A s \in Sessions :
        TailInserts(s)
            => LET new == app'.logs_view.logs
                   i == Unwrap(Selected)
               IN  /\ new = Truncate(InsertFront(Logs, Head(chan[s])), app.max_logs)
                   /\ Len(new) = Min(Len(Logs) + 1, app.max_logs)
                   /\ new # <<>> => new[1] = Head(chan[s])
                   /\ \A k \in 2..Len(new) : new[k] = Logs[k - 1]
                   /\ app'.logs_view.selected = Selected
                   /\ (IsSome(Selected) /\ i >= 1 /\ i < Len(new))
                        => VecGet(new, i) = VecGet(Logs, i - 1)
                   /\ (IsSome(Selected) /\ i = 0 /\ new # <<>>)
                        => VecGet(new, i) = Some(Head(chan[s]))]_vars

\* the cursor was moved to index 1 of two tailed records and a third came
\* in: the cursor, still at 1, is on the second record, which was at index 0
C31_Witness ==
    /\ app.tail_mode /\ Holds(1)
    /\ Logs = <<TailLog(1, 3), TailLog(1, 2), TailLog(1, 1)>>
    /\ Selected = Some(1)


\* C32: the record sequence changes only (i) when a key is handled whose
\* get_logs succeeds, 'r' in Main or Enter in the filter panel, and then to
\* the records fetched, or (ii) when the tick's poll_stream, tail mode being
\* on, receives a record of the stream held, and then to that record put in
\* front of the old ones, cut at the cap: once per tick.  A stream the
\* application takes is a new one, whose task never ran, so no record of a
\* session that was disabled comes in afterwards; and a step of an ingestion
\* task leaves the App untouched.
C32_SequenceWriters ==
    [][/\ app'.logs_view.logs # Logs
          => \/ /\ pc = "event"
                /\ \E key \in {"r", "Enter"} :
                      /\ AsksLogs(key)
                      /\ \E r \in Outside(SequenceWorld, key) :
                            /\ Handles(key, r)
                            /\ get_logs(r.logs).ok
                            /\ app'.logs_view.logs = get_logs(r.logs).val
             \/ \E s \in Sessions :
                   /\ TailInserts(s)
                   /\ app'.logs_view.logs
                        = Truncate(InsertFront(Logs, Head(chan[s])), app.max_logs)
                   /\ LET old == IF Len(Logs) >= app.max_logs
                                 THEN Truncate(Logs, SaturatingSub(app.max_logs, 1))
                                 ELSE Logs
                      IN  app'.logs_view.logs
                            = Truncate(<<Head(chan[s])>> \o old, app.max_logs)
       /\ \A s \in Sessions :
             /\ (app'.log_stream = Some(s) /\ app.log_stream # Some(s))
                   => /\ task[s] = "unborn"
                      /\ chan[s] = <<>>
             /\ task'[s] = "unborn" => task[s] = "unborn"
             /\ (~app.tail_mode \/ ~Holds(s))
                   => \A k \in 1..Len(app'.logs_view.logs) :
                         (app'.logs_view.logs[k].sess = s)
                            => \E j \in 1..Len(Logs) :
                                  Logs[j] = app'.logs_view.logs[k]
       /\ (pc' = pc /\ pc # "exited") => app' = app]_vars

\* the first stream was tailed and disabled, the sequence replaced by a
\* fetch, then the second stream tailed: its first record is in front of
\* the record fetched
C32_Witness ==
    /\ app.tail_mode /\ Holds(2)
    /\ task[1] # "unborn"
    /\ Logs = <<TailLog(2, 1)>> \o FetchedLogs(1)


\* C33: in the open filter panel the App highlight stays in
\* 0..number of applications, the Levels highlight in 0..4 and the TimeRange
\* highlight in 0..3; in each list next adds one and previous takes one
\* modulo the number of slots, so they wrap at both ends and undo each
\* other; a cursor key moves the highlight of the active list only and
\* changes nothing else; and Tab goes App, Levels, TimeRange, Search and
\* back, four presses returning to the field they started from.
C33_HighlightsWrap ==
    /\ [](IsSome(app.filter_state)
            => LET f == Unwrap(app.filter_state)
                   Tab(g) == FilterState_handle_key(g, "Tab").fs
               IN  /\ IsSome(f.app_list_state)
                   /\ Unwrap(f.app_list_state) \in 0..Len(f.apps)
                   /\ IsSome(f.level_list_state)
                   /\ Unwrap(f.level_list_state) \in 0..4
                   /\ IsSome(f.time_list_state)
                   /\ Unwrap(f.time_list_state) \in 0..3
                   /\ next_app(f).app_list_state
                        = Some((Unwrap(f.app_list_state) + 1) % (Len(f.apps) + 1))
                   /\ next_level(f).level_list_state
                        = Some((Unwrap(f.level_list_state) + 1) % 5)
                   /\ next_time_range(f).time_list_state
                        = Some((Unwrap(f.time_list_state) + 1) % 4)
                   /\ previous_app(next_app(f)) = f
                   /\ next_app(previous_app(f)) = f
                   /\ previous_level(next_level(f)) = f
                   /\ next_level(previous_level(f)) = f
                   /\ previous_time_range(next_time_range(f)) = f
                   /\ next_time_range(previous_time_range(f)) = f
                   /\ Tab(Tab(Tab(Tab(f)))) = f
                   /\ {f.active_field, Tab(f).active_field,
                       Tab(Tab(f)).active_field, Tab(Tab(Tab(f))).active_field}
                        = {"App", "Levels", "TimeRange", "Search"})
    /\ [][/\ \A key \in {"j", "Down"} : \A r \in Outside(HighlightWorld, key) :
               (Handles(key, r) /\ OnListField)
                  => LET f == Unwrap(app.filter_state)
                     IN  app' = [app EXCEPT !.filter_state =
                                    Some(CASE f.active_field = "App" -> next_app(f)
                                           [] f.active_field = "Levels" -> next_level(f)
                                           [] OTHER -> next_time_range(f))]
          /\ \A key \in {"k", "Up"} : \A r \in Outside(HighlightWorld, key) :
               (Handles(key, r) /\ OnListField)
                  => LET f == Unwrap(app.filter_state)
                     IN  app' = [app EXCEPT !.filter_state =
                                    Some(CASE f.active_field = "App" -> previous_app(f)
                                           [] f.active_field = "Levels" -> previous_level(f)
                                           [] OTHER -> previous_time_range(f))]
          /\ \A r \in Outside(HighlightWorld, "Tab") :
               (Handles("Tab", r) /\ app.state = "FilterPanel")
                  => LET f == Unwrap(app.filter_state)
                     IN  app' = [app EXCEPT !.filter_state =
                                    Some([f EXCEPT !.active_field =
                                        CASE @ = "App" -> "Levels"
                                          [] @ = "Levels" -> "TimeRange"
                                          [] @ = "TimeRange" -> "Search"
                                          [] OTHER -> "App"])]]_vars

\* 'k' wrapped each highlight from its first slot to its last, and Tab came
\* round to the App field again
C33_Witness ==
    /\ OnField("App")
    /\ Unwrap(app.filter_state).app_list_state = Some(MaxApps)
    /\ Unwrap(app.filter_state).level_list_state = Some(4)
    /\ Unwrap(app.filter_state).time_list_state = Some(3)


\* C34: 'r' in Main and Enter in ExportMenu send the default criteria,
\* limit 100 and offset 0 for the query and nothing but the format for the
\* export, in every state the steps are taken in, also after a filter with
\* an application was applied (which did send that application); the format
\* sent is the one selected; the selection is 0 (JSON) or 1 (CSV) and is 0
\* whenever ExportMenu is entered.
C34_DefaultCriteria ==
    /\ [](app.export_format_selection \in {0, 1})
    /\ [][/\ \A r \in Outside(ExportWorld, "r") :
               (Handles("r", r) /\ app.state = "Main")
                  => refresh_logs_params(app)
                        = <<<<"limit", <<"dec", 100>>>>, <<"offset", <<"dec", 0>>>>>>
          /\ \A r \in Outside(ExportWorld, "Enter") :
               (Handles("Enter", r) /\ app.state = "ExportMenu")
                  => App_export_logs_params(app)
                        = <<<<"format",
                              IF app.export_format_selection = 0
                              THEN "json" ELSE "csv">>>>
          /\ (app'.state = "ExportMenu" /\ app.state # "ExportMenu")
                  => app'.export_format_selection = 0
          /\ \A r \in Outside(ExportWorld, "Enter") :
               (Handles("Enter", r) /\ OnField("App")
                    /\ Unwrap(app.filter_state).app_list_state = Some(1))
                  => ParamValues(get_logs_params(Unwrap(
                        handle_filter_key_filters(app, "Enter", 0, 0))), "app_id")
                        = {<<"dec", 1>>}]_vars

\* CSV is selected in the export menu
C34_Witness ==
    /\ app.state = "ExportMenu"
    /\ app.export_format_selection = 1
    /\ app.status_message = Some(<<"Found {} logs", "0">>)


\* C35: in every reachable state the state is FilterPanel exactly when
\* filter_state is present; every entry into FilterPanel puts there the
\* model FilterState::new builds from the applications held at that moment:
\* nothing selected, Last24Hours, the highlights at 0, 0 and 1, whatever was
\* selected, applied or cancelled on an earlier visit.
C35_ModelWhileOpen ==
    /\ []((app.state = "FilterPanel") <=> IsSome(app.filter_state))
    /\ []((IsSome(app.filter_state) /\ app.state # "Login")
            => Unwrap(app.filter_state).apps = app.apps)
    /\ [][(app'.state = "FilterPanel" /\ app.state # "FilterPanel")
            => /\ app.state = "Main"
               /\ app'.filter_state = Some(FilterState_new(app.apps))
               /\ app'.filter_state =
                    Some([active_field |-> "App", selected_app_id |-> None,
                          selected_levels |-> <<>>, search_text |-> 0,
                          time_range |-> "Last24Hours", apps |-> app.apps,
                          app_list_state |-> Some(0),
                          level_list_state |-> Some(0),
                          time_list_state |-> Some(1)])]_vars

\* a filter was applied and the panel opened again: the model is fresh
C35_Witness ==
    /\ pc = "stream"
    /\ app.state = "FilterPanel"
    /\ app.status_message = Some(<<"Found {} logs", "0">>)
    /\ app.apps # <<>>
    /\ app.filter_state = Some(FilterState_new(app.apps))


\* the tail poll of a tick runs on LogStream s whose task has left its loop
PollsEnded(s) == TickEnds /\ app.tail_mode /\ Holds(s) /\ task[s] = "exited"

\* C36: tail_mode is true exactly when log_stream is present, in every
\* reachable state; once the task of the held stream has ended (its Sender
\* dropped, the channel closed) and the buffer is drained, every poll
\* completes at once and changes neither the application nor the channel,
\* and tail_mode and log_stream stay as they were; a poll on an ended stream
\* whose buffer still holds records completes at once too and takes the
\* oldest of them.
C36_TailIffStream ==
    /\ [](app.tail_mode <=> IsSome(app.log_stream))
    /\ [](\A s \in Sessions :
            (pc = "stream" /\ app.tail_mode /\ Holds(s) /\ task[s] = "exited")
                => Recv(s) # {})
    /\ [][\A s \in Sessions :
            PollsEnded(s) =>
                /\ app'.tail_mode /\ app'.log_stream = Some(s)
                /\ chan[s] = <<>> => (app' = app /\ chan' = chan)
                /\ chan[s] # <<>> =>
                      /\ chan'[s] = Tail(chan[s])
                      /\ app' = poll_stream(app, Some(Head(chan[s])))]_vars

\* C36 as stated: every poll made after the task of the held stream has
\* ended changes nothing.
C36_EndedPollsIdle ==
    [][\A s \in Sessions : PollsEnded(s) => (app' = app /\ chan' = chan)]_vars

\* the held stream has ended and is drained, after a record came through it
C36_Witness ==
    /\ pc = "event"
    /\ app.tail_mode
    /\ \E s \in Sessions :
          /\ Holds(s) /\ task[s] = "exited" /\ chan[s] = <<>>
          /\ Logs # <<>>


\* C37: 't' handled in Main with tail mode off always leaves tail_mode true,
\* the new LogStream held and the status "Tail mode enabled (LIVE)"; its
\* task has only been spawned, nothing is connected, decoded or sent yet;
\* the failure status of toggle_tail_mode is never shown, and tail mode and
\* the status stay as they are when the task then ends without a record.
C37_EnableNeverFails ==
    /\ [](IsSome(app.status_message)
            => Head(Unwrap(app.status_message)) # "Failed to enable tail mode: {}")
    /\ [][\A r \in Outside(TailWorld, "t") :
            (Handles("t", r) /\ app.state = "Main" /\ ~app.tail_mode)
                => /\ app'.tail_mode
                   /\ app'.log_stream = Some(r.stream)
                   /\ app'.status_message = Some(<<"Tail mode enabled (LIVE)">>)
                   /\ app' = [app EXCEPT !.tail_mode = TRUE,
                                         !.log_stream = Some(r.stream),
                                         !.status_message = app'.status_message]
                   /\ task[r.stream] = "unborn" /\ task'[r.stream] = "reading"
                   /\ chan'[r.stream] = <<>> /\ decoded'[r.stream] = 0]_vars
    /\ [][\A s \in Sessions :
            (Holds(s) /\ task[s] = "reading" /\ task'[s] = "exited")
                => app' = app]_vars

\* tail mode was enabled and the task ended before any record was decoded
C37_Witness ==
    /\ app.tail_mode
    /\ app.status_message = Some(<<"Tail mode enabled (LIVE)">>)
    /\ \E s \in Sessions :
          Holds(s) /\ task[s] = "exited" /\ decoded[s] = 0 /\ chan[s] = <<>>


\* C38: whenever the state is LogDetail the cursor designates a record of
\* the current sequence, selected_log being Some, whatever tail insertions
\* and truncations to max_logs_in_memory happened while the popup is open.
C38_DetailHasRecord ==
    [](app.state = "LogDetail" => IsSome(selected_log(app.logs_view)))

\* How the popup keeps its record: the cursor index is never written while
\* it is open, and a sequence longer than max_logs_in_memory meets no
\* insertion there, the poll of the tick that fetched it having either cut
\* it down or found the stream ended and drained.
C38_DetailWithinCap ==
    [][(app.state = "LogDetail" /\ app'.state = "LogDetail")
         => /\ Selected' = Selected
            /\ Len(Logs') < Len(Logs) => FALSE
            /\ (Logs' # Logs) => Len(Logs) <= app.max_logs]_vars

\* the popup is open with the cursor on the last record of a full sequence;
\* the poll of the tick just ended inserted the third tail record above it
\* and the truncation dropped the record below it
C38_Witness ==
    /\ pc = "event"
    /\ app.state = "LogDetail"
    /\ app.tail_mode /\ Holds(1) /\ Alive(1)
    /\ app.max_logs = 2
    /\ Logs = <<TailLog(1, 3), TailLog(1, 2)>>
    /\ Selected = Some(1)

(***************************************************************************)
(* SpecCriteria: the filter panel with the highlight moved and entries     *)
(* selected in the application and time-range lists, committed or          *)
(* cancelled.  Levels and search text are left as FilterState::new makes   *)
(* them.                                                                   *)
(***************************************************************************)
CriteriaKeys == FilterKeys \cup {"Up", "Down"}

OfferedCriteria ==
    {key \in CriteriaKeys :
        /\ ~Typing(key)
        /\ IsSelect(key) /\ key # "Enter" => ~OnField("Levels")}

NextCriteria ==
    \/ AutoLogin(FilterWorld)
    \/ KeyEvent(OfferedCriteria, FilterWorld)
    \/ NoKeyEvent
    \/ SkipStream
    \/ Exit

SpecCriteria == InitScreens /\ [][NextCriteria]_vars

\* the criteria the FilterState of the application compiles to, per instant
Compiled(a) ==
    [now \in Instants \X Instants |->
        to_log_filters(Unwrap(a.filter_state), now[1], now[2])]

\* C39: in the filter panel a key that moves the highlight of the
\* application or time-range list ('k', Up, 'j', Down) leaves the compiled
\* criteria as they were and commits nothing; the criteria of an open panel
\* change only when Space selects the highlighted entry; and Enter on a
\* model just made by FilterState::new sends no application, no levels, no
\* search text and both bounds of the last 24 hours, which is not
\* LogFilters::default(), the criteria refresh uses.
C39_HighlightKeepsCriteria ==
    /\ [][\A key \in {"k", "Up", "j", "Down"} :
            \A r \in Outside(FilterWorld, key) :
              (Handles(key, r) /\ app.state = "FilterPanel"
                 /\ (OnField("App") \/ OnField("TimeRange")))
                => /\ app'.state = "FilterPanel"
                   /\ Compiled(app') = Compiled(app)
                   /\ app'.logs_view = app.logs_view]_vars
    /\ [][(app.state = "FilterPanel" /\ app'.state = "FilterPanel"
             /\ Compiled(app') # Compiled(app))
            => /\ OnField("App") \/ OnField("TimeRange")
               /\ \E r \in Outside(FilterWorld, "Space") : Handles("Space", r)]_vars
    /\ [][\A r \in Outside(FilterWorld, "Enter") :
            (Handles("Enter", r) /\ app.state = "FilterPanel"
               /\ app.filter_state = Some(FilterState_new(app.apps)))
              => /\ app'.state = "Main"
                 /\ \A n1, n2 \in Instants :
                      LET sent == handle_filter_key_filters(app, "Enter", n1, n2)
                      IN  /\ sent = Some([app_id |-> None, levels |-> <<>>,
                                          search |-> None,
                                          start_time |-> Some(n1 - DurationHours(24)),
                                          end_time |-> Some(n2),
                                          limit |-> 100, offset |-> 0])
                          /\ Unwrap(sent) # LogFilters_default
                          /\ get_logs_params(Unwrap(sent)) # refresh_logs_params(app)]_vars

\* the highlights of the application and time-range lists were moved off the
\* entries that stay selected
C39_Witness ==
    /\ pc = "stream"
    /\ OnField("TimeRange")
    /\ LET f == Unwrap(app.filter_state)
       IN  /\ f.app_list_state = Some(1) /\ f.selected_app_id = None
           /\ f.time_list_state = Some(3) /\ f.time_range = "Last24Hours"

====
